---- MODULE Spec2Model ----
(***************************************************************************)
(* Model of the preference/order record store (lib/db.ts) and of the       *)
(* recommendation engine built on it (lib/recommend.ts).                   *)
(*                                                                         *)
(* Conventions of the model                                                *)
(*  - A table is the sequence of its rows in insertion (rowid) order.      *)
(*    created_at is a logical clock that advances with every insert, so    *)
(*    no two rows of a table carry the same timestamp.                     *)
(*  - A JavaScript Map is a sequence of <<key, value>> pairs in insertion  *)
(*    order, a JavaScript Set a sequence without repetition: both iterate  *)
(*    in insertion order, as the language defines.                         *)
(*  - A JavaScript number is held in thousandths (1 is 1000, 1.5 is 1500): *)
(*    scores are multiples of 0.5, exactly representable as doubles.       *)
(*  - A ratio (support) is held as the pair [num, den] of its operands.    *)
(*  - A template string is the tuple of its pieces.                        *)
(*  - call is the request the recommend endpoint is serving, with what its *)
(*    handler has read and computed so far; last is the latest finished    *)
(*    operation and what it returned.                                      *)
(***************************************************************************)
EXTENDS Integers, Sequences, FiniteSets, TLC

VARIABLES preferences, orders, last, call

vars == <<preferences, orders, last, call>>

(***************************************************************************)
(* Input domains                                                           *)
(***************************************************************************)
Emails == {"a@x.com", "b@x.com"}

CATEGORIES == {"Electronics", "Fashion"}

Statuses == {"completed", "pending"}

\* Tokens in the order String.prototype comparison (UTF-16 code units) gives.
TokenOrder ==
  <<"Electronics", "Fashion", "Fitness", "Garden", "Home", "Home|Garden",
    "Tech", "Travel">>

StrLess(a, b) ==
  \E i, j \in 1..Len(TokenOrder) : TokenOrder[i] = a /\ TokenOrder[j] = b /\ i < j

(***************************************************************************)
(* Language helpers: Array, Map, Set                                       *)
(***************************************************************************)
Min(a, b) == IF a < b THEN a ELSE b

Max(a, b) == IF a > b THEN a ELSE b

\* Mutant of Slice: one element too many
SliceOneMore(s, n) == SubSeq(s, 1, Min(n + 1, Len(s)))

\* Array.prototype.slice(0, n) for n >= 0
Slice(s, n) == SubSeq(s, 1, Min(n, Len(s)))

\* Array.prototype.sort with a consistent comparator: stable (ES2019).
\* Before(a, b) is "compare(a, b) < 0".
StableSort(s, Before(_, _)) ==
  LET n == Len(s)
      rank(i) == Cardinality({j \in 1..n :
                    \/ Before(s[j], s[i])
                    \/ (~Before(s[i], s[j]) /\ j < i)}) + 1
  IN [p \in 1..n |-> s[CHOOSE i \in 1..n : rank(i) = p]]

MapHas(m, k) == \E i \in 1..Len(m) : m[i][1] = k

\* m.get(k) || dflt
MapGetOr(m, k, dflt) ==
  IF MapHas(m, k) THEN m[CHOOSE i \in 1..Len(m) : m[i][1] = k][2] ELSE dflt

MapSet(m, k, v) ==
  IF MapHas(m, k)
  THEN [i \in 1..Len(m) |-> IF m[i][1] = k THEN <<k, v>> ELSE m[i]]
  ELSE Append(m, <<k, v>>)

SetHas(s, x) == \E i \in 1..Len(s) : s[i] = x

SetAdd(s, x) == IF SetHas(s, x) THEN s ELSE Append(s, x)

RECURSIVE SetAddAll(_, _)
SetAddAll(s, xs) ==
  IF xs = <<>> THEN s ELSE SetAddAll(SetAdd(s, Head(xs)), Tail(xs))

Range(s) == {s[i] : i \in 1..Len(s)}

(***************************************************************************)
(* Record store (lib/db.ts)                                                *)
(***************************************************************************)
\* INSERT INTO preference_updates: the next rowid, created_at = now
savePreference(email, interests) ==
  preferences' = Append(preferences,
     [id |-> Len(preferences) + 1, email |-> email, interests |-> interests,
      createdAt |-> Len(preferences) + 1])

\* INSERT INTO orders: status is params.status || "completed"
saveOrder(email, amountCents, category, status) ==
  orders' = Append(orders,
     [id |-> Len(orders) + 1, email |-> email, amountCents |-> amountCents,
      category |-> category, status |-> status,
      createdAt |-> Len(orders) + 1])

\* SELECT ... FROM preference_updates ORDER BY created_at DESC
getAllPreferences(table) ==
  StableSort(table, LAMBDA a, b : a.createdAt > b.createdAt)

\* SELECT ... FROM orders ORDER BY created_at DESC
getAllOrders(table) ==
  StableSort(table, LAMBDA a, b : a.createdAt > b.createdAt)

(***************************************************************************)
(* MinHeap (lib/recommend.ts).  Indices are the code's, from 0.            *)
(***************************************************************************)
At(heap, index) == heap[index + 1]

Swap(heap, i, j) ==
  [x \in 1..Len(heap) |->
     IF x = i + 1 THEN heap[j + 1] ELSE IF x = j + 1 THEN heap[i + 1] ELSE heap[x]]

\* return this.heap[0]: undefined, the empty tuple, when nothing is held
peek(heap) == IF Len(heap) = 0 THEN <<>> ELSE <<heap[1]>>

RECURSIVE bubbleUp(_, _)
bubbleUp(heap, index) ==
  IF index > 0
  THEN LET parentIndex == (index - 1) \div 2
       IN IF At(heap, parentIndex).priority <= At(heap, index).priority
          THEN heap
          ELSE bubbleUp(Swap(heap, parentIndex, index), parentIndex)
  ELSE heap

\* Mutant of bubbleDown: the element moved to the root is left there
bubbleDownSkipped(heap, index) == heap

RECURSIVE bubbleDown(_, _)
bubbleDown(heap, index) ==
  LET length == Len(heap)
      leftChild == 2 * index + 1
      rightChild == 2 * index + 2
      s1 == IF leftChild < length
               /\ At(heap, leftChild).priority < At(heap, index).priority
            THEN leftChild ELSE index
      smallest == IF rightChild < length
                     /\ At(heap, rightChild).priority < At(heap, s1).priority
                  THEN rightChild ELSE s1
  IN IF smallest = index
     THEN heap
     ELSE bubbleDown(Swap(heap, smallest, index), smallest)

insert(heap, value, priority) ==
  bubbleUp(Append(heap, [value |-> value, priority |-> priority]), Len(heap))

\* The pair (returned items: none or one, heap afterwards)
extractMin(heap) ==
  IF Len(heap) = 0 THEN [min |-> <<>>, heap |-> heap]
  ELSE IF Len(heap) = 1 THEN [min |-> <<heap[1]>>, heap |-> <<>>]
  ELSE [min |-> <<heap[1]>>,
        heap |-> bubbleDown(
                   [SubSeq(heap, 1, Len(heap) - 1) EXCEPT ![1] = heap[Len(heap)]],
                   0)]

(***************************************************************************)
(* Co-occurrence matrix (lib/recommend.ts)                                 *)
(***************************************************************************)
\* email -> Set of interests, the union over the customer's records
RECURSIVE EmailToInterestSet(_, _)
EmailToInterestSet(prefs, m) ==
  IF prefs = <<>> THEN m
  ELSE LET pref == Head(prefs)
           existing == MapGetOr(m, pref.email, <<>>)
       IN EmailToInterestSet(Tail(prefs),
             MapSet(m, pref.email, SetAddAll(existing, pref.interests)))

\* for (const interest of interests) matrix[interest][category] += 1
RECURSIVE CountOrderInMatrix(_, _, _)
CountOrderInMatrix(matrix, interests, category) ==
  IF interests = <<>> THEN matrix
  ELSE LET interest == Head(interests)
           categoryMap == MapGetOr(matrix, interest, <<>>)
       IN CountOrderInMatrix(
             MapSet(matrix, interest,
                    MapSet(categoryMap, category,
                           MapGetOr(categoryMap, category, 0) + 1)),
             Tail(interests), category)

RECURSIVE CountOrdersInMatrix(_, _, _)
CountOrdersInMatrix(matrix, os, emailToInterests) ==
  IF os = <<>> THEN matrix
  ELSE LET order == Head(os)
       IN IF ~MapHas(emailToInterests, order.email)
          THEN CountOrdersInMatrix(matrix, Tail(os), emailToInterests)
          ELSE CountOrdersInMatrix(
                 CountOrderInMatrix(matrix,
                    MapGetOr(emailToInterests, order.email, <<>>),
                    order.category),
                 Tail(os), emailToInterests)

buildCoOccurrenceMatrix(prefs, os) ==
  CountOrdersInMatrix(<<>>, os, EmailToInterestSet(prefs, <<>>))

(***************************************************************************)
(* Popularity fallback (lib/recommend.ts)                                  *)
(***************************************************************************)
RECURSIVE CountCategories(_, _)
CountCategories(os, categoryCounts) ==
  IF os = <<>> THEN categoryCounts
  ELSE CountCategories(Tail(os),
          MapSet(categoryCounts, Head(os).category,
                 MapGetOr(categoryCounts, Head(os).category, 0) + 1))

PopularRecommendation(entry) ==
  [category |-> entry[1], score |-> entry[2] * 1000,
   reason |-> <<"Popular category">>]

getPopularCategories(os, k) ==
  LET categoryCounts == CountCategories(os, <<>>)
      sorted == StableSort(categoryCounts, LAMBDA a, b : b[2] - a[2] < 0)
      top == Slice(sorted, k)
  IN [i \in 1..Len(top) |-> PopularRecommendation(top[i])]

(***************************************************************************)
(* Top-K recommendations (lib/recommend.ts)                                *)
(***************************************************************************)
\* userPrefs = preferences.filter(p => p.email === email)
UserPrefs(prefs, email) == SelectSeq(prefs, LAMBDA p : p.email = email)

RECURSIVE UserInterests(_, _)
UserInterests(userPrefs, set) ==
  IF userPrefs = <<>> THEN set
  ELSE UserInterests(Tail(userPrefs), SetAddAll(set, Head(userPrefs).interests))

\* for (const [category, count] of categoryMap) accumulate score and reason
RECURSIVE AddCategoryMap(_, _, _)
AddCategoryMap(categoryScores, interest, categoryMap) ==
  IF categoryMap = <<>> THEN categoryScores
  ELSE LET category == Head(categoryMap)[1]
           count == Head(categoryMap)[2]
           existing == MapGetOr(categoryScores, category,
                                [score |-> 0, reasons |-> <<>>])
       IN AddCategoryMap(
            MapSet(categoryScores, category,
                   [score |-> existing.score + count,
                    reasons |-> Append(existing.reasons,
                       <<interest, " buyers often purchase ", category>>)]),
            interest, Tail(categoryMap))

RECURSIVE CategoryScores(_, _, _)
CategoryScores(categoryScores, userInterests, matrix) ==
  IF userInterests = <<>> THEN categoryScores
  ELSE LET interest == Head(userInterests)
       IN IF ~MapHas(matrix, interest)
          THEN CategoryScores(categoryScores, Tail(userInterests), matrix)
          ELSE CategoryScores(
                 AddCategoryMap(categoryScores, interest,
                                MapGetOr(matrix, interest, <<>>)),
                 Tail(userInterests), matrix)

\* new Set(orders.filter(o => o.email === email).map(o => o.category))
UserCategories(os, email) ==
  {os[i].category : i \in {j \in 1..Len(os) : os[j].email = email}}

\* Mutant of BoostedScore: the boost goes to the categories already bought
BoostedScoreInverted(score, bought) ==
  IF bought THEN score * 1500 ELSE score * 1000

\* userCategories.has(category) ? data.score : data.score * 1.5
BoostedScore(score, bought) == IF bought THEN score * 1000 ELSE score * 1500

\* One turn of the selection loop: keep the k largest priorities seen
\* Mutant of OfferToHeap: a score equal to the minimum replaces it
OfferToHeapOnEqual(heap, value, score, k) ==
  IF Len(heap) < k THEN insert(heap, value, score)
  ELSE IF peek(heap)[1].priority <= score
       THEN insert(extractMin(heap).heap, value, score)
       ELSE heap

OfferToHeap(heap, value, score, k) ==
  IF Len(heap) < k THEN insert(heap, value, score)
  ELSE IF peek(heap)[1].priority < score
       THEN insert(extractMin(heap).heap, value, score)
       ELSE heap

RECURSIVE SelectTopK(_, _, _, _)
SelectTopK(heap, categoryScores, userCategories, k) ==
  IF categoryScores = <<>> THEN heap
  ELSE LET category == Head(categoryScores)[1]
           data == Head(categoryScores)[2]
           score == BoostedScore(data.score, category \in userCategories)
       IN SelectTopK(
            OfferToHeap(heap, [category |-> category, reasons |-> data.reasons],
                        score, k),
            Tail(categoryScores), userCategories, k)

\* Math.round(x * 100) / 100, x and the result in thousandths
RoundTo2(x) == ((x + 5) \div 10) * 10

HeapRecommendation(item) ==
  [category |-> item.value.category,
   score |-> RoundTo2(item.priority),
   reason |-> IF Len(item.value.reasons) > 0 THEN item.value.reasons[1]
              ELSE <<"Based on similar users">>]

\* while (heap.size > 0) results.unshift(heap.extractMin())
RECURSIVE DrainHeap(_, _)
DrainHeap(heap, results) ==
  IF Len(heap) > 0
  THEN LET ex == extractMin(heap)
       IN DrainHeap(ex.heap, <<HeapRecommendation(ex.min[1])>> \o results)
  ELSE results

\* Mutant of Backfill: popular categories appended without the membership test
BackfillUnfiltered(results, popular) == results \o popular

\* for (const rec of popular) if (!existingCategories.has(rec.category)) push
Backfill(results, popular) ==
  LET existingCategories == {results[i].category : i \in 1..Len(results)}
  IN results \o SelectSeq(popular, LAMBDA rec : rec.category \notin existingCategories)

\* The personalized pass: the drained heap, before any backfill
PersonalizedPass(prefs, os, email, k) ==
  LET userInterests == UserInterests(UserPrefs(prefs, email), <<>>)
      matrix == buildCoOccurrenceMatrix(prefs, os)
      categoryScores == CategoryScores(<<>>, userInterests, matrix)
      heap == SelectTopK(<<>>, categoryScores, UserCategories(os, email), k)
  IN DrainHeap(heap, <<>>)

\* Mutant of Recommend: the personalized pass is returned without backfill
RecommendWithoutBackfill(prefs, os, email, k) ==
  IF Len(UserPrefs(prefs, email)) = 0
  THEN getPopularCategories(os, k)
  ELSE Slice(PersonalizedPass(prefs, os, email, k), k)

\* prefs, os: the two tables as read by getAllPreferences and getAllOrders
Recommend(prefs, os, email, k) ==
  IF Len(UserPrefs(prefs, email)) = 0
  THEN getPopularCategories(os, k)
  ELSE LET results == PersonalizedPass(prefs, os, email, k)
           filled == IF Len(results) < k
                     THEN Backfill(results,
                             getPopularCategories(os, k - Len(results)))
                     ELSE results
       IN Slice(filled, k)

getRecommendations(email, k) ==
  Recommend(getAllPreferences(preferences), getAllOrders(orders), email, k)

(***************************************************************************)
(* Apriori-lite frequent itemsets (lib/recommend.ts)                       *)
(***************************************************************************)
\* for (const interest of pref.interests) interestCounts[interest] += 1
RECURSIVE CountTokens(_, _)
CountTokens(counts, tokens) ==
  IF tokens = <<>> THEN counts
  ELSE CountTokens(MapSet(counts, Head(tokens), MapGetOr(counts, Head(tokens), 0) + 1),
                   Tail(tokens))

RECURSIVE InterestCounts(_, _)
InterestCounts(counts, prefs) ==
  IF prefs = <<>> THEN counts
  ELSE InterestCounts(CountTokens(counts, Head(prefs).interests), Tail(prefs))

\* Math.max(1, Math.floor(totalTransactions * minSupport))
MinCount(totalTransactions, minSupport) ==
  Max(1, (totalTransactions * minSupport.num) \div minSupport.den)

\* Mutant of IsFrequent: a count equal to the threshold is left out
IsFrequentStrict(count, minCount) == count > minCount

\* if (count >= minCount)
IsFrequent(count, minCount) == count >= minCount

\* [x, y].sort(): as strings, ascending
SortPair(x, y) == IF StrLess(y, x) THEN <<y, x>> ELSE <<x, y>>

\* A string as the pieces a split at "|" finds in it, with the separators
\* between them: one token holds the separator
Pieces(token) ==
  IF token = "Home|Garden" THEN <<"Home", "|", "Garden">> ELSE <<token>>

\* [x, y].join("|") and `${x}|${y}`
JoinKey(x, y) == Pieces(x) \o <<"|">> \o Pieces(y)

\* key.split("|")
SplitKey(key) == SelectSeq(key, LAMBDA piece : piece # "|")

\* All the pairs (i, j), i < j, of one record, in the order of the two loops
PairKeys(interests) ==
  LET n == Len(interests)
      PairAt(i, j) == LET sorted == SortPair(interests[i], interests[j])
                      IN JoinKey(sorted[1], sorted[2])
      RowFrom(i) == [d \in 1..(n - i) |-> PairAt(i, i + d)]
      Rows[i \in 0..n] == IF i = 0 THEN <<>> ELSE Rows[i - 1] \o RowFrom(i)
  IN Rows[n]

RECURSIVE PairCounts(_, _)
PairCounts(counts, prefs) ==
  IF prefs = <<>> THEN counts
  ELSE PairCounts(CountTokens(counts, PairKeys(Head(prefs).interests)), Tail(prefs))

\* emailToInterests.set(pref.email, pref.interests): the last record read stays
RECURSIVE EmailToInterests(_, _)
EmailToInterests(m, prefs) ==
  IF prefs = <<>> THEN m
  ELSE EmailToInterests(MapSet(m, Head(prefs).email, Head(prefs).interests),
                        Tail(prefs))

CrossKeys(interests, category) ==
  [p \in 1..Len(interests) |-> JoinKey(interests[p], category)]

RECURSIVE CrossCounts(_, _, _)
CrossCounts(counts, os, emailToInterests) ==
  IF os = <<>> THEN counts
  ELSE LET order == Head(os)
       IN IF ~MapHas(emailToInterests, order.email)
          THEN CrossCounts(counts, Tail(os), emailToInterests)
          ELSE CrossCounts(
                 CountTokens(counts,
                    CrossKeys(MapGetOr(emailToInterests, order.email, <<>>),
                              order.category)),
                 Tail(os), emailToInterests)

\* Mutant of SingleSupport: the denominator the pairs use
SingleSupportOverPreferences(count, prefs, os) ==
  [num |-> count, den |-> Len(prefs)]

\* support: count / totalTransactions
SingleSupport(count, prefs, os) == [num |-> count, den |-> Len(prefs) + Len(os)]

\* support: count / preferences.length
PairSupport(count, prefs, os) == [num |-> count, den |-> Len(prefs)]

\* support: count / orders.length
CrossSupport(count, prefs, os) == [num |-> count, den |-> Len(os)]

FrequentSingles(counts, minCount, prefs, os) ==
  LET kept == SelectSeq(counts, LAMBDA e : IsFrequent(e[2], minCount))
  IN [i \in 1..Len(kept) |->
        [items |-> <<kept[i][1]>>,
         support |-> SingleSupport(kept[i][2], prefs, os),
         type |-> "interest"]]

FrequentPairs(counts, minCount, prefs, os) ==
  LET kept == SelectSeq(counts, LAMBDA e : IsFrequent(e[2], minCount))
  IN [i \in 1..Len(kept) |->
        [items |-> SplitKey(kept[i][1]),
         support |-> PairSupport(kept[i][2], prefs, os),
         type |-> "interest"]]

FrequentCross(counts, minCount, prefs, os) ==
  LET kept == SelectSeq(counts, LAMBDA e : IsFrequent(e[2], minCount))
  IN [i \in 1..Len(kept) |->
        [items |-> <<SplitKey(kept[i][1])[1], SplitKey(kept[i][1])[2]>>,
         support |-> CrossSupport(kept[i][2], prefs, os),
         type |-> "interest-category"]]

\* b.support - a.support < 0, on ratios with positive denominators
SupportGreater(a, b) ==
  a.support.num * b.support.den > b.support.num * a.support.den

\* prefs, os: the two tables as read by getAllPreferences and getAllOrders
FrequentItemsets(prefs, os, minSupport) ==
  LET totalTransactions == Len(prefs) + Len(os)
      minCount == MinCount(totalTransactions, minSupport)
      results ==
         FrequentSingles(InterestCounts(<<>>, prefs), minCount, prefs, os)
         \o FrequentPairs(PairCounts(<<>>, prefs), minCount, prefs, os)
         \o FrequentCross(CrossCounts(<<>>, os, EmailToInterests(<<>>, prefs)),
                          minCount, prefs, os)
  IN IF totalTransactions = 0 THEN <<>>
     ELSE StableSort(results, SupportGreater)

findFrequentItemsets(minSupport) ==
  FrequentItemsets(getAllPreferences(preferences), getAllOrders(orders), minSupport)

(***************************************************************************)
(* State machine: store writes and engine calls.  A handler runs to        *)
(* completion; last holds the latest call and what it returned.            *)
(***************************************************************************)
Init ==
  /\ preferences = <<>>
  /\ orders = <<>>
  /\ last = [op |-> "none"]
  /\ call = [op |-> "idle"]

SavePreference(email, interests) ==
  /\ savePreference(email, interests)
  /\ last' = [op |-> "savePreference"]
  /\ UNCHANGED <<orders, call>>

SaveOrder(email, amountCents, category, status) ==
  /\ saveOrder(email, amountCents, category, status)
  /\ last' = [op |-> "saveOrder"]
  /\ UNCHANGED <<preferences, call>>

GetRecommendations(email, k) ==
  /\ last' = [op |-> "getRecommendations", email |-> email, k |-> k,
              result |-> getRecommendations(email, k)]
  /\ UNCHANGED <<preferences, orders, call>>

FindFrequentItemsets(minSupport) ==
  /\ last' = [op |-> "findFrequentItemsets", minSupport |-> minSupport,
              result |-> findFrequentItemsets(minSupport)]
  /\ UNCHANGED <<preferences, orders, call>>

(***************************************************************************)
(* Recommendations over the store the application fills: every order is    *)
(* written by the purchase endpoint, with status "completed".              *)
(***************************************************************************)
MaxPrefs == 2

MaxOrders == 2

MaxK == 2

Amounts == {5000}

RecInterestLists == {<<>>, <<"Tech">>, <<"Tech", "Travel">>}

RecSavePreference ==
  \E email \in Emails, interests \in RecInterestLists :
     Len(preferences) < MaxPrefs /\ SavePreference(email, interests)

RecSaveOrder ==
  \E email \in Emails, amountCents \in Amounts, category \in CATEGORIES :
     Len(orders) < MaxOrders /\ SaveOrder(email, amountCents, category, "completed")

RecQuery ==
  \E email \in Emails, k \in 1..MaxK : GetRecommendations(email, k)

NextRecommend == RecSavePreference \/ RecSaveOrder \/ RecQuery

SpecRecommend == Init /\ [][NextRecommend]_vars

(***************************************************************************)
(* Any snapshot the store's API can hold: saveOrder takes any status.      *)
(***************************************************************************)
MaxStorePrefs == 1

MaxStoreOrders == 3

StoreSavePreference ==
  \E email \in Emails, interests \in RecInterestLists :
     Len(preferences) < MaxStorePrefs /\ SavePreference(email, interests)

StoreSaveOrder ==
  \E email \in Emails, amountCents \in Amounts, category \in CATEGORIES,
     status \in Statuses :
     Len(orders) < MaxStoreOrders /\ SaveOrder(email, amountCents, category, status)

NextStore == StoreSavePreference \/ StoreSaveOrder \/ RecQuery

SpecStore == Init /\ [][NextStore]_vars

(***************************************************************************)
(* Itemset mining over the store the preferences endpoint fills: it keeps  *)
(* the interest array as sent, in its order and with its repetitions.      *)
(***************************************************************************)
MaxMinePrefs == 2

MaxMineOrders == 1

MineInterestLists ==
  {<<"Tech">>, <<"Tech", "Travel">>, <<"Travel", "Tech">>, <<"Tech", "Tech">>}

\* 0, 0.05 (the application's), 0.5 and 1
MinSupports ==
  {[num |-> 0, den |-> 1], [num |-> 1, den |-> 20], [num |-> 1, den |-> 2],
   [num |-> 1, den |-> 1]}

MineSavePreference ==
  \E email \in Emails, interests \in MineInterestLists :
     Len(preferences) < MaxMinePrefs /\ SavePreference(email, interests)

MineSaveOrder ==
  \E email \in Emails, amountCents \in Amounts, category \in CATEGORIES :
     Len(orders) < MaxMineOrders /\ SaveOrder(email, amountCents, category, "completed")

MineQuery == \E minSupport \in MinSupports : FindFrequentItemsets(minSupport)

NextMine == MineSavePreference \/ MineSaveOrder \/ MineQuery

SpecMine == Init /\ [][NextMine]_vars

(***************************************************************************)
(* What the claims speak of, stated on the tables themselves               *)
(***************************************************************************)
IsRecommendCall == last.op = "getRecommendations"

HasPreferenceRecord(email) ==
  \E i \in 1..Len(preferences) : preferences[i].email = email

\* Union of the interests of all the customer's preference records
InterestUnion(email) ==
  UNION {Range(preferences[i].interests) :
           i \in {j \in 1..Len(preferences) : preferences[j].email = email}}

OrderCategories == {orders[i].category : i \in 1..Len(orders)}

OrderCount(c) == Cardinality({i \in 1..Len(orders) : orders[i].category = c})

CompletedOrderCount(c) ==
  Cardinality({i \in 1..Len(orders) :
     orders[i].category = c /\ orders[i].status = "completed"})

HasBought(email, c) ==
  \E i \in 1..Len(orders) : orders[i].email = email /\ orders[i].category = c

RECURSIVE SumOver(_, _)
SumOver(f, S) ==
  IF S = {} THEN 0
  ELSE LET x == CHOOSE y \in S : TRUE IN f[x] + SumOver(f, S \ {x})

\* Orders of category c whose buyer's interest union holds interest
CoOccurrence(interest, c) ==
  Cardinality({n \in 1..Len(orders) :
     orders[n].category = c /\ interest \in InterestUnion(orders[n].email)})

\* S(c): the sum over the customer's interests of the co-occurrence counts
AccumulatedScore(email, c) ==
  SumOver([interest \in InterestUnion(email) |-> CoOccurrence(interest, c)],
          InterestUnion(email))

PersonalizedCategories(email) ==
  {c \in CATEGORIES : AccumulatedScore(email, c) > 0}

IsPopularItem(rec) == rec.reason = <<"Popular category">>

ResultCategories(r) == {r[i].category : i \in 1..Len(r)}

DistinctCategories(r) ==
  \A i, j \in 1..Len(r) : i # j => r[i].category # r[j].category

DescendingScore(r) == \A i \in 1..Len(r) - 1 : r[i].score >= r[i + 1].score

\* r is a top-k ranking of the categories by Count, each scored by its count
IsPopularityTopK(r, k, Count(_)) ==
  /\ Len(r) = Min(k, Cardinality({c \in CATEGORIES : Count(c) > 0}))
  /\ DistinctCategories(r)
  /\ DescendingScore(r)
  /\ \A i \in 1..Len(r) :
        /\ Count(r[i].category) > 0
        /\ r[i].score = Count(r[i].category) * 1000
        /\ r[i].reason = <<"Popular category">>
  /\ \A c \in CATEGORIES \ ResultCategories(r) :
        \A i \in 1..Len(r) : Count(c) * 1000 <= r[i].score

(***************************************************************************)
(* C1: for an email without preference record, recommend(email, k) is the  *)
(* top-k ranking of the categories by number of completed orders, each     *)
(* scored by that number with reason "Popular category"; orders that are   *)
(* not completed do not count.                                             *)
(***************************************************************************)
C1_PopularityByCompletedOrders ==
  (IsRecommendCall /\ ~HasPreferenceRecord(last.email))
     => IsPopularityTopK(last.result, last.k, CompletedOrderCount)

(***************************************************************************)
(* C2: recommend(email, k) returns at most k recommendations, whether or   *)
(* not the email has preference records.                                   *)
(***************************************************************************)
C2_AtMostK == IsRecommendCall => Len(last.result) <= last.k

C2_Witness ==
  /\ IsRecommendCall
  /\ HasPreferenceRecord(last.email)
  /\ Cardinality(OrderCategories) > last.k
  /\ Len(last.result) = last.k

(***************************************************************************)
(* C3: the whole result of recommend(email, k) is in descending score      *)
(* order, the boundary between personalized and backfilled items included. *)
(***************************************************************************)
C3_DescendingScore == IsRecommendCall => DescendingScore(last.result)

(***************************************************************************)
(* C4: when the personalized pass yields p < k recommendations, the result *)
(* is these followed by the popularity ranking of the categories not yet   *)
(* present, until it holds k items or no category of the order history is  *)
(* left; its length is min(k, number of distinct categories ordered).      *)
(***************************************************************************)
C4_BackfillUpToK ==
  (/\ IsRecommendCall
   /\ HasPreferenceRecord(last.email)
   /\ Cardinality(PersonalizedCategories(last.email)) < last.k)
  => LET r == last.result
         p == Cardinality(PersonalizedCategories(last.email))
     IN /\ Len(r) = Min(last.k, Cardinality(OrderCategories))
        /\ \A i \in 1..Len(r) :
              IF i <= p THEN r[i].category \in PersonalizedCategories(last.email)
              ELSE /\ IsPopularItem(r[i])
                   /\ r[i].category \notin PersonalizedCategories(last.email)
                   /\ r[i].score = OrderCount(r[i].category) * 1000
        /\ \A i, j \in (p + 1)..Len(r) : i < j => r[i].score >= r[j].score

(***************************************************************************)
(* C5: the categories recommend(email, k) returns are pairwise distinct    *)
(* and each is the category of some order; with fewer than k distinct      *)
(* categories in the order history the result has fewer than k items.      *)
(***************************************************************************)
C5_DistinctAndFromOrders ==
  IsRecommendCall =>
     /\ DistinctCategories(last.result)
     /\ ResultCategories(last.result) \subseteq OrderCategories
     /\ (Cardinality(OrderCategories) < last.k => Len(last.result) < last.k)

\* The backfill met a category the personalized pass had already returned
C5_Witness ==
  /\ IsRecommendCall
  /\ HasPreferenceRecord(last.email)
  /\ Cardinality(OrderCategories) < last.k
  /\ Len(last.result) = 1
  /\ ~IsPopularItem(last.result[1])

(***************************************************************************)
(* C6: for a customer with a preference record, a category c that          *)
(* accumulates a score is reported with S(c), the sum over the union of    *)
(* the customer's interests of the co-occurrence counts, times 1.5 when    *)
(* the customer has no order in c; with at most k such categories all of   *)
(* them are returned.  Scenario A: one item, Electronics with score 1.     *)
(***************************************************************************)
ScenarioA ==
  /\ Len(preferences) = 2
  /\ preferences[1].email = "a@x.com" /\ preferences[1].interests = <<"Tech">>
  /\ preferences[2].email = "b@x.com"
  /\ preferences[2].interests = <<"Tech", "Travel">>
  /\ Len(orders) = 1
  /\ orders[1].email = "a@x.com" /\ orders[1].category = "Electronics"

C6_PersonalizedScore ==
  (IsRecommendCall /\ HasPreferenceRecord(last.email)) =>
     LET r == last.result
         S(c) == AccumulatedScore(last.email, c)
     IN /\ \A i \in 1..Len(r) :
              S(r[i].category) > 0 =>
                 /\ ~IsPopularItem(r[i])
                 /\ r[i].score = IF HasBought(last.email, r[i].category)
                                 THEN S(r[i].category) * 1000
                                 ELSE (S(r[i].category) * 1500)
        /\ Cardinality(PersonalizedCategories(last.email)) <= last.k
              => PersonalizedCategories(last.email) \subseteq ResultCategories(r)
        /\ (ScenarioA /\ last.email = "a@x.com" /\ last.k > 1) =>
              /\ Len(r) = 1
              /\ r[1].category = "Electronics" /\ r[1].score = 1000

\* One result holding a boosted (never bought) category ahead of an unboosted
\* one, both scored over two interests of the customer
C6_Witness ==
  /\ IsRecommendCall
  /\ Len(last.result) = 2
  /\ \A i \in 1..2 : ~IsPopularItem(last.result[i])
  /\ HasBought(last.email, last.result[2].category)
  /\ ~HasBought(last.email, last.result[1].category)
  /\ last.result[1].score = 3000

(***************************************************************************)
(* Itemset mining: the counts and thresholds the claims speak of           *)
(***************************************************************************)
IsMineCall == last.op = "findFrequentItemsets"

Interests == {"Tech", "Travel"}

\* Canonical pairs: the two tokens in ascending string order
InterestPairs == {pair \in Interests \X Interests : ~StrLess(pair[2], pair[1])}

TotalTransactions == Len(preferences) + Len(orders)

\* max(1, floor(totalTransactions * minSupport))
Threshold(minSupport) ==
  LET scaled == (TotalTransactions * minSupport.num) \div minSupport.den
  IN IF scaled < 1 THEN 1 ELSE scaled

\* Occurrences of the token over all preference records
SingleCount(token) ==
  SumOver([r \in 1..Len(preferences) |->
             Cardinality({p \in 1..Len(preferences[r].interests) :
                preferences[r].interests[p] = token})],
          1..Len(preferences))

\* Positions i < j of one record holding the two tokens, over all records
PairCount(pair) ==
  SumOver([r \in 1..Len(preferences) |->
             LET interests == preferences[r].interests
             IN Cardinality({ij \in (1..Len(interests)) \X (1..Len(interests)) :
                   /\ ij[1] < ij[2]
                   /\ {interests[ij[1]], interests[ij[2]]} = {pair[1], pair[2]}})],
          1..Len(preferences))

RecordsOf(email) == {r \in 1..Len(preferences) : preferences[r].email = email}

\* The customer's record of latest creation time
LatestRecord(email) ==
  preferences[CHOOSE r \in RecordsOf(email) :
     \A q \in RecordsOf(email) : preferences[q].createdAt <= preferences[r].createdAt]

\* The customer's record of earliest creation time
EarliestRecord(email) ==
  preferences[CHOOSE r \in RecordsOf(email) :
     \A q \in RecordsOf(email) : preferences[q].createdAt >= preferences[r].createdAt]

\* The cross count the miner holds: per order of the category, the
\* occurrences of the interest in the buyer's earliest record
MinedCrossCount(interest, c) ==
  SumOver([n \in 1..Len(orders) |->
             IF orders[n].category = c /\ HasPreferenceRecord(orders[n].email)
             THEN LET interests == EarliestRecord(orders[n].email).interests
                  IN Cardinality({p \in 1..Len(interests) : interests[p] = interest})
             ELSE 0],
          1..Len(orders))

\* Completed orders of the category whose buyer's current (latest) record
\* holds the interest
CurrentCrossCount(interest, c) ==
  Cardinality({n \in 1..Len(orders) :
     /\ orders[n].category = c
     /\ orders[n].status = "completed"
     /\ HasPreferenceRecord(orders[n].email)
     /\ interest \in Range(LatestRecord(orders[n].email).interests)})

NoRepeatedToken ==
  \A r \in 1..Len(preferences) :
     \A i, j \in 1..Len(preferences[r].interests) :
        i # j => preferences[r].interests[i] # preferences[r].interests[j]

Reported(r, items, type) ==
  {n \in 1..Len(r) : r[n].items = items /\ r[n].type = type}

\* ratio = count / n
RatioIs(ratio, count, n) == n > 0 /\ ratio.den > 0 /\ ratio.num * n = count * ratio.den

ScenarioB ==
  /\ ScenarioA
  /\ last.minSupport = [num |-> 1, den |-> 2]

(***************************************************************************)
(* C7: a candidate (single interest, interest pair, interest-category      *)
(* pair) is in the result of mineFrequentItemsets(minSupport) exactly when *)
(* its count is at least max(1, floor(totalTransactions * minSupport)),    *)
(* totalTransactions being preference records plus orders; nothing else is *)
(* in the result.  Scenario B: Tech, Travel and Tech|Electronics appear.   *)
(***************************************************************************)
C7_FrequentIffThreshold ==
  IsMineCall =>
    LET r == last.result
        minCount == Threshold(last.minSupport)
    IN /\ \A token \in Interests :
             Cardinality(Reported(r, <<token>>, "interest")) =
                IF SingleCount(token) >= minCount THEN 1 ELSE 0
       /\ \A pair \in InterestPairs :
             Cardinality(Reported(r, pair, "interest")) =
                IF PairCount(pair) >= minCount THEN 1 ELSE 0
       /\ \A interest \in Interests, c \in CATEGORIES :
             Cardinality(Reported(r, <<interest, c>>, "interest-category")) =
                IF MinedCrossCount(interest, c) >= minCount THEN 1 ELSE 0
       /\ \A n \in 1..Len(r) :
             \/ r[n].type = "interest"
                /\ (\E token \in Interests : r[n].items = <<token>>)
             \/ r[n].type = "interest" /\ r[n].items \in InterestPairs
             \/ r[n].type = "interest-category"
                /\ r[n].items \in Interests \X CATEGORIES
       /\ ScenarioB =>
             /\ Reported(r, <<"Tech">>, "interest") # {}
             /\ Reported(r, <<"Travel">>, "interest") # {}
             /\ Reported(r, <<"Tech", "Electronics">>, "interest-category") # {}

\* A threshold above 1 keeps one candidate and leaves another one out
C7_Witness ==
  /\ IsMineCall
  /\ Threshold(last.minSupport) > 1
  /\ Len(last.result) > 0
  /\ \E token \in Interests :
        SingleCount(token) >= 1 /\ SingleCount(token) < Threshold(last.minSupport)

(***************************************************************************)
(* C8: every itemset mineFrequentItemsets returns has a support in [0,1],  *)
(* for every snapshot the store can hold, records repeating a token in     *)
(* their interest list included.                                           *)
(***************************************************************************)
C8_SupportInUnitInterval ==
  IsMineCall =>
    \A n \in 1..Len(last.result) :
       /\ last.result[n].support.den > 0
       /\ 0 <= last.result[n].support.num
       /\ last.result[n].support.num <= last.result[n].support.den

(***************************************************************************)
(* C9: the support reported for a single interest and for an interest pair *)
(* is count / (number of preference records), the support reported for an  *)
(* interest-category pair is count / (number of orders).                   *)
(***************************************************************************)
C9_SupportDenominators ==
  IsMineCall =>
    \A n \in 1..Len(last.result) :
       LET it == last.result[n]
       IN IF it.type = "interest-category"
          THEN RatioIs(it.support, MinedCrossCount(it.items[1], it.items[2]),
                       Len(orders))
          ELSE IF Len(it.items) = 2
          THEN RatioIs(it.support, PairCount(it.items), Len(preferences))
          ELSE RatioIs(it.support, SingleCount(it.items[1]), Len(preferences))

(***************************************************************************)
(* C9 as amended: the support reported for a single interest is            *)
(* count / (number of preference records + number of orders); for an       *)
(* interest pair it is count / (number of preference records), for an      *)
(* interest-category pair count / (number of orders).                      *)
(***************************************************************************)
C9_SupportDenominatorsAmended ==
  IsMineCall =>
    \A n \in 1..Len(last.result) :
       LET it == last.result[n]
       IN IF it.type = "interest-category"
          THEN RatioIs(it.support, MinedCrossCount(it.items[1], it.items[2]),
                       Len(orders))
          ELSE IF Len(it.items) = 2
          THEN RatioIs(it.support, PairCount(it.items), Len(preferences))
          ELSE RatioIs(it.support, SingleCount(it.items[1]),
                       Len(preferences) + Len(orders))

\* A result with a single interest, an interest pair and a cross pair, mined
\* from a store that holds an order
C9_Witness ==
  /\ IsMineCall
  /\ Len(orders) > 0
  /\ \E n \in 1..Len(last.result) :
        last.result[n].type = "interest" /\ Len(last.result[n].items) = 1
  /\ \E n \in 1..Len(last.result) :
        last.result[n].type = "interest" /\ Len(last.result[n].items) = 2
  /\ \E n \in 1..Len(last.result) : last.result[n].type = "interest-category"

(***************************************************************************)
(* C10: the cross count of (interest i, category c) is the number of       *)
(* completed orders of category c whose buyer's current preference state   *)
(* holds i, the current state being the record of latest creation time.    *)
(* Stated on the result, for records that repeat no token: the pair is     *)
(* reported exactly when that number reaches the threshold, with support   *)
(* that number / (number of orders).                                       *)
(***************************************************************************)
C10_CrossCountByLatestRecord ==
  (IsMineCall /\ NoRepeatedToken) =>
    \A interest \in Interests, c \in CATEGORIES :
       LET hits == Reported(last.result, <<interest, c>>, "interest-category")
           count == CurrentCrossCount(interest, c)
       IN IF count >= Threshold(last.minSupport)
          THEN /\ hits # {}
               /\ \A n \in hits : RatioIs(last.result[n].support, count, Len(orders))
          ELSE hits = {}

(***************************************************************************)
(* Interest centrality (lib/recommend.ts)                                  *)
(***************************************************************************)
\* for (const interest of interests) adjacency[interest].add(connection)
RECURSIVE ConnectInterests(_, _, _)
ConnectInterests(adjacency, interests, connection) ==
  IF interests = <<>> THEN adjacency
  ELSE LET interest == Head(interests)
           connections == MapGetOr(adjacency, interest, <<>>)
       IN ConnectInterests(
             MapSet(adjacency, interest, SetAdd(connections, connection)),
             Tail(interests), connection)

\* connections.add(`email:${pref.email}`), for every record
RECURSIVE EmailConnections(_, _)
EmailConnections(adjacency, prefs) ==
  IF prefs = <<>> THEN adjacency
  ELSE EmailConnections(
         ConnectInterests(adjacency, Head(prefs).interests,
                          <<"email:", Head(prefs).email>>),
         Tail(prefs))

\* connections.add(`category:${order.category}`), for every order of a
\* customer emailToInterests knows
RECURSIVE CategoryConnections(_, _, _)
CategoryConnections(adjacency, os, emailToInterests) ==
  IF os = <<>> THEN adjacency
  ELSE LET order == Head(os)
       IN IF ~MapHas(emailToInterests, order.email)
          THEN CategoryConnections(adjacency, Tail(os), emailToInterests)
          ELSE CategoryConnections(
                 ConnectInterests(adjacency,
                    MapGetOr(emailToInterests, order.email, <<>>),
                    <<"category:", order.category>>),
                 Tail(os), emailToInterests)

Adjacency(prefs, os) ==
  CategoryConnections(EmailConnections(<<>>, prefs), os,
                      EmailToInterests(<<>>, prefs))

\* Mutant of MaxConnections: the floor alone
MaxConnectionsFloor(adjacency) == 1

\* Math.max(1, ...Array.from(adjacency.values()).map(s => s.size))
RECURSIVE MaxConnections(_)
MaxConnections(adjacency) ==
  IF adjacency = <<>> THEN 1
  ELSE Max(Len(Head(adjacency)[2]), MaxConnections(Tail(adjacency)))

CentralityEntry(entry, maxConnections) ==
  [interest |-> entry[1],
   centrality |-> [num |-> Len(entry[2]), den |-> maxConnections],
   connections |-> Len(entry[2])]

\* b.centrality - a.centrality < 0, on ratios with positive denominators
CentralityGreater(a, b) ==
  a.centrality.num * b.centrality.den > b.centrality.num * a.centrality.den

\* prefs, os: the two tables as read by getAllPreferences and getAllOrders
InterestCentrality(prefs, os) ==
  LET adjacency == Adjacency(prefs, os)
      maxConnections == MaxConnections(adjacency)
      entries == [i \in 1..Len(adjacency) |->
                    CentralityEntry(adjacency[i], maxConnections)]
  IN StableSort(entries, CentralityGreater)

getInterestCentrality ==
  InterestCentrality(getAllPreferences(preferences), getAllOrders(orders))

GetInterestCentrality ==
  /\ last' = [op |-> "getInterestCentrality", result |-> getInterestCentrality]
  /\ UNCHANGED <<preferences, orders, call>>

(***************************************************************************)
(* Centrality over the store the two endpoints fill                        *)
(***************************************************************************)
MaxCenPrefs == 2

MaxCenOrders == 2

CenInterestLists == {<<"Tech">>, <<"Travel">>, <<"Tech", "Travel">>}

CenSavePreference ==
  \E email \in Emails, interests \in CenInterestLists :
     Len(preferences) < MaxCenPrefs /\ SavePreference(email, interests)

CenSaveOrder ==
  \E email \in Emails, amountCents \in Amounts, category \in CATEGORIES :
     Len(orders) < MaxCenOrders /\ SaveOrder(email, amountCents, category, "completed")

CenQuery == GetInterestCentrality

NextCentrality == CenSavePreference \/ CenSaveOrder \/ CenQuery

SpecCentrality == Init /\ [][NextCentrality]_vars

(***************************************************************************)
(* Centrality: what the claims speak of                                    *)
(***************************************************************************)
IsCentralityCall == last.op = "getInterestCentrality"

InUnitInterval(ratio) == ratio.den > 0 /\ 0 <= ratio.num /\ ratio.num <= ratio.den

\* Customers with a preference record that holds the interest
HoldersOf(interest) ==
  {preferences[r].email :
     r \in {q \in 1..Len(preferences) : interest \in Range(preferences[q].interests)}}

\* Categories bought by a customer whose latest record holds the interest
CategoriesOfCurrentHolders(interest) ==
  {orders[n].category :
     n \in {m \in 1..Len(orders) :
              /\ HasPreferenceRecord(orders[m].email)
              /\ interest \in Range(LatestRecord(orders[m].email).interests)}}

(***************************************************************************)
(* C11: every centrality value rankInterestCentrality returns lies in      *)
(* [0,1], the result is in descending centrality order, and either the     *)
(* result is empty or the interest with the maximum connection count has   *)
(* centrality exactly 1.                                                   *)
(***************************************************************************)
C11_CentralityRange ==
  IsCentralityCall =>
    LET r == last.result
    IN /\ \A n \in 1..Len(r) : InUnitInterval(r[n].centrality)
       /\ \A n \in 1..Len(r) - 1 :
             r[n].centrality.num * r[n + 1].centrality.den
                >= r[n + 1].centrality.num * r[n].centrality.den
       /\ \A n \in 1..Len(r) :
             (\A m \in 1..Len(r) : r[m].connections <= r[n].connections)
                => r[n].centrality.num = r[n].centrality.den

\* Two interests of different connection counts, the larger above 1
C11_Witness ==
  /\ IsCentralityCall
  /\ Len(last.result) = 2
  /\ last.result[1].connections > 1
  /\ last.result[2].connections < last.result[1].connections
  /\ last.result[2].centrality.num < last.result[2].centrality.den

(***************************************************************************)
(* C12: for every interest, the connections number rankInterestCentrality  *)
(* reports is the number of distinct customers having a preference record  *)
(* that holds the interest plus the number of distinct categories bought   *)
(* by some customer whose current (latest-created) preference record holds *)
(* the interest.                                                           *)
(***************************************************************************)
C12_ConnectionsByLatestRecord ==
  IsCentralityCall =>
    \A n \in 1..Len(last.result) :
       last.result[n].connections =
          Cardinality(HoldersOf(last.result[n].interest))
          + Cardinality(CategoriesOfCurrentHolders(last.result[n].interest))

(***************************************************************************)
(* Segment opportunities (lib/recommend.ts)                                *)
(***************************************************************************)
\* emailData.get(email) || { interests: new Set(), categories: new Set(), spent: 0 }
NewEmailData == [interests |-> <<>>, categories |-> <<>>, spent |-> 0]

RECURSIVE EmailDataOfPreferences(_, _)
EmailDataOfPreferences(emailData, prefs) ==
  IF prefs = <<>> THEN emailData
  ELSE LET pref == Head(prefs)
           data == MapGetOr(emailData, pref.email, NewEmailData)
       IN EmailDataOfPreferences(
             MapSet(emailData, pref.email,
                    [data EXCEPT !.interests = SetAddAll(@, pref.interests)]),
             Tail(prefs))

RECURSIVE EmailDataOfOrders(_, _)
EmailDataOfOrders(emailData, os) ==
  IF os = <<>> THEN emailData
  ELSE LET order == Head(os)
           data == MapGetOr(emailData, order.email, NewEmailData)
       IN EmailDataOfOrders(
             MapSet(emailData, order.email,
                    [data EXCEPT !.categories = SetAdd(@, order.category),
                                 !.spent = @ + order.amountCents]),
             Tail(os))

EmailData(prefs, os) ==
  EmailDataOfOrders(EmailDataOfPreferences(<<>>, prefs), os)

\* Array.from(emailData.values()).filter(Matches).length
MatchCount(emailData, Matches(_)) ==
  Cardinality({i \in 1..Len(emailData) : Matches(emailData[i][2])})

InterestPairSegment(itemset, emailData) ==
  LET i1 == itemset.items[1]
      i2 == itemset.items[2]
  IN [name |-> <<i1, " + ", i2, " Enthusiasts">>,
      criteria |-> << <<"pref_interests contains \"", i1, "\"">>,
                      <<"pref_interests contains \"", i2, "\"">> >>,
      estimatedSize |-> MatchCount(emailData,
         LAMBDA d : SetHas(d.interests, i1) /\ SetHas(d.interests, i2)),
      confidence |-> itemset.support]

InterestCategorySegment(itemset, emailData) ==
  LET interest == itemset.items[1]
      category == itemset.items[2]
  IN [name |-> <<interest, " Fans who buy ", category>>,
      criteria |-> << <<"pref_interests contains \"", interest, "\"">>,
                      <<"last_purchase_category = \"", category, "\"">> >>,
      estimatedSize |-> MatchCount(emailData,
         LAMBDA d : SetHas(d.interests, interest) /\ SetHas(d.categories, category)),
      confidence |-> itemset.support]

\* for (const itemset of frequentItems): none, one or the other segment
RECURSIVE PatternSegments(_, _, _)
PatternSegments(opportunities, frequentItems, emailData) ==
  IF frequentItems = <<>> THEN opportunities
  ELSE LET itemset == Head(frequentItems)
           withPair ==
              IF itemset.type = "interest" /\ Len(itemset.items) = 2
              THEN Append(opportunities, InterestPairSegment(itemset, emailData))
              ELSE opportunities
           withCross ==
              IF itemset.type = "interest-category" /\ Len(itemset.items) = 2
              THEN Append(withPair, InterestCategorySegment(itemset, emailData))
              ELSE withPair
       IN PatternSegments(withCross, Tail(frequentItems), emailData)

\* Mutant of IsHighValue: the threshold itself is left out
IsHighValueStrict(spent) == spent > 10000

\* d.spent >= highValueThreshold
IsHighValue(spent) == spent >= 10000

HighValueSegment(opportunities, emailData) ==
  LET highValueCount == MatchCount(emailData, LAMBDA d : IsHighValue(d.spent))
  IN IF highValueCount > 0
     THEN Append(opportunities,
             [name |-> <<"High-Value Customers">>,
              criteria |-> << <<"total_spent >= 100">> >>,
              estimatedSize |-> highValueCount,
              confidence |-> [num |-> highValueCount,
                              den |-> Max(1, Len(emailData))]])
     ELSE opportunities

MultiInterestSegment(opportunities, emailData) ==
  LET multiInterestCount == MatchCount(emailData, LAMBDA d : Len(d.interests) >= 3)
  IN IF multiInterestCount > 0
     THEN Append(opportunities,
             [name |-> <<"Diverse Interest Profile">>,
              criteria |-> << <<"pref_interests.length >= 3">> >>,
              estimatedSize |-> multiInterestCount,
              confidence |-> [num |-> multiInterestCount,
                              den |-> Max(1, Len(emailData))]])
     ELSE opportunities

\* The list opportunities as it stands before the final sort
Opportunities(prefs, os, frequentItems) ==
  LET emailData == EmailData(prefs, os)
  IN MultiInterestSegment(
        HighValueSegment(PatternSegments(<<>>, frequentItems, emailData),
                         emailData),
        emailData)

\* Mutant of LargerSegment: ascending estimatedSize
SmallerSegment(a, b) == a.estimatedSize < b.estimatedSize

\* b.estimatedSize - a.estimatedSize < 0
LargerSegment(a, b) == b.estimatedSize - a.estimatedSize < 0

\* opportunities.sort(...).slice(0, 10)
LargestSegments(opportunities) ==
  Slice(StableSort(opportunities, LargerSegment), 10)

\* The minimum support the engine mines its own patterns with: 0.05
EngineMinSupport == [num |-> 1, den |-> 20]

\* prefs, os: the tables as read by getSegmentOpportunities; frequentItems:
\* what findFrequentItemsets(0.05) returned from its own reads
SegmentOpportunities(prefs, os, frequentItems) ==
  LargestSegments(Opportunities(prefs, os, frequentItems))

getSegmentOpportunities ==
  SegmentOpportunities(getAllPreferences(preferences), getAllOrders(orders),
                       findFrequentItemsets(EngineMinSupport))

\* last keeps, with the result, the list as it stood before the final sort
GetSegmentOpportunities ==
  /\ LET opportunities == Opportunities(getAllPreferences(preferences),
                              getAllOrders(orders),
                              findFrequentItemsets(EngineMinSupport))
     IN last' = [op |-> "getSegmentOpportunities",
                 opportunities |-> opportunities,
                 result |-> LargestSegments(opportunities)]
  /\ UNCHANGED <<preferences, orders, call>>

(***************************************************************************)
(* Segments over the store the two endpoints fill                          *)
(***************************************************************************)
MaxSegPrefs == 2

MaxSegOrders == 2

SegInterestLists ==
  {<<"Fitness">>, <<"Tech", "Travel">>, <<"Tech", "Travel", "Fitness">>}

SegSavePreference ==
  \E email \in Emails, interests \in SegInterestLists :
     Len(preferences) < MaxSegPrefs /\ SavePreference(email, interests)

SegSaveOrder ==
  \E email \in Emails, amountCents \in Amounts, category \in CATEGORIES :
     Len(orders) < MaxSegOrders /\ SaveOrder(email, amountCents, category, "completed")

SegQuery == GetSegmentOpportunities

NextSegment == SegSavePreference \/ SegSaveOrder \/ SegQuery

SpecSegment == Init /\ [][NextSegment]_vars

(***************************************************************************)
(* Segments over any store the preferences endpoint can fill: it keeps the *)
(* interest array as sent, with its repetitions.                           *)
(***************************************************************************)
MaxRawPrefs == 1

MaxRawOrders == 2

RawInterestLists == {<<"Tech">>, <<"Tech", "Tech">>, <<"Tech", "Travel">>}

RawSavePreference ==
  \E email \in Emails, interests \in RawInterestLists :
     Len(preferences) < MaxRawPrefs /\ SavePreference(email, interests)

RawSaveOrder ==
  \E email \in Emails, amountCents \in Amounts, category \in CATEGORIES :
     Len(orders) < MaxRawOrders /\ SaveOrder(email, amountCents, category, "completed")

NextRawSegment == RawSavePreference \/ RawSaveOrder \/ SegQuery

SpecRawSegment == Init /\ [][NextRawSegment]_vars

(***************************************************************************)
(* Segments: what the claims speak of                                      *)
(***************************************************************************)
IsSegmentCall == last.op = "getSegmentOpportunities"

\* Distinct emails in preference records or orders
KnownCustomers ==
  {preferences[i].email : i \in 1..Len(preferences)}
  \cup {orders[i].email : i \in 1..Len(orders)}

\* Cumulative spend of the customer, in minor units
Spend(email) ==
  SumOver([n \in 1..Len(orders) |->
             IF orders[n].email = email THEN orders[n].amountCents ELSE 0],
          1..Len(orders))

HighValueCustomers == {e \in KnownCustomers : Spend(e) >= 10000}

DiverseCustomers == {e \in KnownCustomers : Cardinality(InterestUnion(e)) >= 3}

Named(list, name) == {n \in 1..Len(list) : list[n].name = name}

Occurrences(list, x) == Cardinality({n \in 1..Len(list) : list[n] = x})

IsPairSegment(segment) ==
  Len(segment.name) = 4 /\ segment.name[2] = " + "

(***************************************************************************)
(* C13: listSegmentOpportunities returns at most 10 segments, in           *)
(* descending estimatedSize order, and they are the 10 largest by          *)
(* estimatedSize of all the candidate segments, pattern-derived and        *)
(* heuristic.                                                              *)
(***************************************************************************)
C13_TenLargestSegments ==
  IsSegmentCall =>
    LET r == last.result
        candidates == last.opportunities
    IN /\ Len(r) = Min(10, Len(candidates))
       /\ \A n \in 1..Len(r) - 1 : r[n].estimatedSize >= r[n + 1].estimatedSize
       /\ \A n \in 1..Len(r) : Occurrences(r, r[n]) <= Occurrences(candidates, r[n])
       /\ \A c \in 1..Len(candidates) :
             Occurrences(r, candidates[c]) < Occurrences(candidates, candidates[c])
                => \A n \in 1..Len(r) :
                      r[n].estimatedSize >= candidates[c].estimatedSize

\* More than 10 candidates of different sizes: the list is cut
C13_Witness ==
  /\ IsSegmentCall
  /\ Len(last.opportunities) > 10
  /\ Len(last.result) = 10
  /\ last.result[1].estimatedSize > last.result[10].estimatedSize

(***************************************************************************)
(* C14: a segment derived from a frequent interest pair {i1, i2} has as    *)
(* estimatedSize the number of customers whose union of interests over all *)
(* their preference records holds both i1 and i2, and as confidence the    *)
(* reported support of that itemset; the confidence of every returned      *)
(* segment, of any kind, lies in [0,1].                                    *)
(***************************************************************************)
C14_PairSegmentSizeAndConfidence ==
  IsSegmentCall =>
    LET r == last.result
        patterns == findFrequentItemsets(EngineMinSupport)
    IN /\ \A n \in 1..Len(r) :
             IsPairSegment(r[n]) =>
                LET i1 == r[n].name[1]
                    i2 == r[n].name[3]
                IN /\ r[n].estimatedSize =
                         Cardinality({e \in KnownCustomers :
                            {i1, i2} \subseteq InterestUnion(e)})
                   /\ \E m \in 1..Len(patterns) :
                         /\ patterns[m].type = "interest"
                         /\ patterns[m].items = <<i1, i2>>
                         /\ patterns[m].support = r[n].confidence
       /\ \A n \in 1..Len(r) : InUnitInterval(r[n].confidence)

(***************************************************************************)
(* C15: before truncation the list holds a "High-Value Customers" segment  *)
(* exactly when some customer has a cumulative spend of at least 10000     *)
(* minor units, with estimatedSize the number of such customers and        *)
(* confidence that number over the number of known customers (distinct     *)
(* emails in preference records or orders); and a "Diverse Interest        *)
(* Profile" segment exactly when some customer holds at least 3 distinct   *)
(* interests, with the same size and confidence convention.                *)
(***************************************************************************)
C15_HeuristicSegments ==
  IsSegmentCall =>
    LET candidates == last.opportunities
        highValue == Named(candidates, <<"High-Value Customers">>)
        diverse == Named(candidates, <<"Diverse Interest Profile">>)
    IN /\ Cardinality(highValue) = IF HighValueCustomers # {} THEN 1 ELSE 0
       /\ \A n \in highValue :
             /\ candidates[n].estimatedSize = Cardinality(HighValueCustomers)
             /\ RatioIs(candidates[n].confidence,
                        Cardinality(HighValueCustomers),
                        Cardinality(KnownCustomers))
       /\ Cardinality(diverse) = IF DiverseCustomers # {} THEN 1 ELSE 0
       /\ \A n \in diverse :
             /\ candidates[n].estimatedSize = Cardinality(DiverseCustomers)
             /\ RatioIs(candidates[n].confidence,
                        Cardinality(DiverseCustomers),
                        Cardinality(KnownCustomers))

\* Both heuristic segments, among customers of whom one alone is
\* high-value (spend exactly 10000) and one alone, by the union of two
\* records, holds three interests
C15_Witness ==
  /\ IsSegmentCall
  /\ Cardinality(KnownCustomers) = 2
  /\ Cardinality(HighValueCustomers) = 1
  /\ Cardinality(DiverseCustomers) = 1
  /\ \A r \in 1..Len(preferences) : Len(preferences[r].interests) < 3
  /\ Named(last.opportunities, <<"High-Value Customers">>) # {}
  /\ Named(last.opportunities, <<"Diverse Interest Profile">>) # {}

(***************************************************************************)
(* The recommend endpoint (app/api/recommended/route.ts) and               *)
(* getFullRecommendations (lib/recommend.ts)                               *)
(***************************************************************************)
\* Mutant of getDb: the table is created anew
getDbRecreated(table) == <<>>

\* db.exec(CREATE TABLE IF NOT EXISTS ...): an existing table keeps its
\* rows, a missing one is created without rows.  The model holds a missing
\* table as the table without rows.
getDb(table) == table

\* The email parameter as it may arrive; "" stands for an absent one.
RawEmails == {"", " A@X.com", "b@x.com"}

\* Mutant of TrimLowerCase: the email is used as it was given
EmailAsGiven(email) == email

\* email.trim().toLowerCase()
TrimLowerCase(email) == IF email = " A@X.com" THEN "a@x.com" ELSE email

Types == {"full", "recommendations", "segments", "patterns", "centrality"}

\* The engine functions the handler calls for a request, in call order
Plan(request) ==
  IF request.email = ""
  THEN IF request.type = "segments" THEN <<"getSegmentOpportunities">>
       ELSE IF request.type = "patterns" THEN <<"findFrequentItemsets">>
       ELSE IF request.type = "centrality" THEN <<"getInterestCentrality">>
       ELSE <<"getSegmentOpportunities", "findFrequentItemsets",
              "getInterestCentrality">>
  ELSE IF request.type = "recommendations" THEN <<"getRecommendations">>
       ELSE <<"getRecommendations", "getSegmentOpportunities",
              "findFrequentItemsets", "getInterestCentrality">>

\* The reads one engine function makes of the store, in order:
\* getSegmentOpportunities reads both tables, then findFrequentItemsets
\* reads them again
ReadsOf(fn) ==
  IF fn = "getSegmentOpportunities"
  THEN <<"preferences", "orders", "preferences", "orders">>
  ELSE <<"preferences", "orders">>

\* What the engine function returns from what its reads returned
PartResult(fn, reads, email) ==
  CASE fn = "getRecommendations" -> Recommend(reads[1], reads[2], email, 5)
    [] fn = "getSegmentOpportunities" ->
         SegmentOpportunities(reads[1], reads[2],
            FrequentItemsets(reads[3], reads[4], EngineMinSupport))
    [] fn = "findFrequentItemsets" ->
         FrequentItemsets(reads[1], reads[2], EngineMinSupport)
    [] fn = "getInterestCentrality" -> InterestCentrality(reads[1], reads[2])

\* Mutant of FrequentPatterns: the list is not cut
FrequentPatternsUncut(patterns) == patterns

\* findFrequentItemsets(0.05).slice(0, 10)
FrequentPatterns(patterns) == Slice(patterns, 10)

\* getFullRecommendations, from what the four engine functions returned
FullRecommendations(email, parts) ==
  [email |-> email,
   recommendations |-> parts[1],
   segmentOpportunities |-> parts[2],
   frequentPatterns |-> FrequentPatterns(parts[3]),
   interestCentrality |-> Slice(parts[4], 5)]

\* The body of the answer when nothing was thrown
OkBody(request, parts) ==
  IF request.email = ""
  THEN IF request.type = "segments" THEN [ok |-> TRUE, segments |-> parts[1]]
       ELSE IF request.type = "patterns"
       THEN [ok |-> TRUE, patterns |-> Slice(parts[1], 20)]
       ELSE IF request.type = "centrality"
       THEN [ok |-> TRUE, centrality |-> parts[1]]
       ELSE [ok |-> TRUE, segments |-> parts[1],
             patterns |-> Slice(parts[2], 10),
             centrality |-> Slice(parts[3], 5)]
  ELSE IF request.type = "recommendations"
       THEN [ok |-> TRUE, email |-> TrimLowerCase(request.email),
             recommendations |-> parts[1]]
       ELSE LET result == FullRecommendations(TrimLowerCase(request.email), parts)
            IN [ok |-> TRUE, email |-> result.email,
                recommendations |-> result.recommendations,
                segmentOpportunities |-> result.segmentOpportunities,
                frequentPatterns |-> result.frequentPatterns,
                interestCentrality |-> result.interestCentrality]

\* Mutant of CatchResponse: the answer carries what was computed
CatchResponseWithParts(message, parts) ==
  [status |-> 500, body |-> [ok |-> FALSE, error |-> message, parts |-> parts]]

\* catch (err): the handler's locals, parts among them, are out of scope
CatchResponse(message, parts) ==
  [status |-> 500, body |-> [ok |-> FALSE, error |-> message]]

OkResponse(request, parts) == [status |-> 200, body |-> OkBody(request, parts)]

\* What the reads of one engine function return when the store does not
\* change while it runs
ReadsOfUnchanged(fn, prefs, os) ==
  [j \in 1..Len(ReadsOf(fn)) |->
     IF ReadsOf(fn)[j] = "preferences" THEN prefs ELSE os]

\* Mutant of ServedParts: the engine keeps its structures from one call to
\* the next, and a call that follows another call finds them used up
ServedPartsRetained(request, prefs, os, count) ==
  [i \in 1..count |->
     IF last.op = "GET" THEN <<>>
     ELSE PartResult(Plan(request)[i],
                     ReadsOfUnchanged(Plan(request)[i], prefs, os),
                     TrimLowerCase(request.email))]

\* The results of the first count engine functions of the request
ServedParts(request, prefs, os, count) ==
  [i \in 1..count |->
     PartResult(Plan(request)[i],
                ReadsOfUnchanged(Plan(request)[i], prefs, os),
                TrimLowerCase(request.email))]

\* The handler runs to its return statement.  last keeps the answer, the
\* states the store was in while the handler ran and, when the request before
\* it was the same and answered, that answer.
Get(request) ==
  /\ preferences' = getDb(preferences)
  /\ orders' = getDb(orders)
  /\ LET parts == ServedParts(request, getAllPreferences(preferences'),
                              getAllOrders(orders'), Len(Plan(request)))
     IN last' = [op |-> "GET", request |-> request, threw |-> FALSE,
                 computed |-> Len(parts),
                 response |-> OkResponse(request, parts),
                 previous |-> IF /\ last.op = "GET"
                                 /\ last.request = request
                                 /\ ~last.threw
                              THEN <<last.response>> ELSE <<>>,
                 snapshots |-> {<<preferences, orders>>}]
  /\ UNCHANGED call

\* A read of the store throws inside the engine function at position
\* failing of the plan, after the functions before it have returned.
GetThrowing(request, failing) ==
  /\ failing \in 1..Len(Plan(request))
  /\ preferences' = getDb(preferences)
  /\ orders' = getDb(orders)
  /\ LET parts == ServedParts(request, getAllPreferences(preferences'),
                              getAllOrders(orders'), failing - 1)
     IN last' = [op |-> "GET", request |-> request, threw |-> TRUE,
                 computed |-> failing - 1,
                 response |-> CatchResponse("lookup failed", parts),
                 previous |-> <<>>,
                 snapshots |-> {<<preferences, orders>>}]
  /\ UNCHANGED call

(***************************************************************************)
(* The endpoint over a store that does not change while a request is       *)
(* served: the handler has no await between its reads.                     *)
(***************************************************************************)
MaxReportPrefs == 1

MaxReportOrders == 2

ReportInterestLists == {<<"Tech">>, <<"Tech", "Travel", "Fitness">>}

\* With an email, every type but "recommendations" asks for the full report
Requests ==
  {request \in [email : RawEmails, type : Types] :
     request.email = "" \/ request.type \in {"full", "recommendations"}}

ReportSavePreference ==
  \E interests \in ReportInterestLists :
     Len(preferences) < MaxReportPrefs /\ SavePreference("a@x.com", interests)

ReportSaveOrder ==
  \E amountCents \in Amounts, category \in CATEGORIES :
     /\ Len(orders) < MaxReportOrders
     /\ SaveOrder("a@x.com", amountCents, category, "completed")

ReportGet == \E request \in Requests : Get(request)

ReportGetThrowing ==
  \E request \in Requests :
     \E failing \in 1..Len(Plan(request)) : GetThrowing(request, failing)

NextReport ==
  ReportSavePreference \/ ReportSaveOrder \/ ReportGet \/ ReportGetThrowing

SpecReport == Init /\ [][NextReport]_vars

(***************************************************************************)
(* The endpoint beside a writer that is not held back by the handler: the  *)
(* store is a database file, every read opens it anew and no transaction   *)
(* spans two reads, so that another process serving the same application   *)
(* can commit a write between any two of them.  call is the request being  *)
(* served: the results of the engine functions that have returned (parts), *)
(* what the reads of the running one have returned (reads), and the states *)
(* the store has been in since the handler started (snapshots).            *)
(***************************************************************************)
\* The store has moved to state while the request was being served
Observed(state) ==
  IF call.op = "idle" THEN call
  ELSE [call EXCEPT !.snapshots = @ \cup {state}]

EngineSavePreference(email, interests) ==
  /\ savePreference(email, interests)
  /\ last' = [op |-> "savePreference"]
  /\ call' = Observed(<<preferences', orders>>)
  /\ UNCHANGED orders

EngineSaveOrder(email, amountCents, category, status) ==
  /\ saveOrder(email, amountCents, category, status)
  /\ last' = [op |-> "saveOrder"]
  /\ call' = Observed(<<preferences, orders'>>)
  /\ UNCHANGED preferences

\* The handler starts on a request
Begin(request) ==
  /\ call.op = "idle"
  /\ call' = [op |-> "GET", request |-> request, parts |-> <<>>,
              reads |-> <<>>, snapshots |-> {<<preferences, orders>>}]
  /\ UNCHANGED <<preferences, orders, last>>

\* The next read of the running engine function, with what the handler does
\* up to the read after it: the function returns when this was its last
\* read, the handler answers when this was its last function
ReadTable ==
  /\ call.op = "GET"
  /\ preferences' = getDb(preferences)
  /\ orders' = getDb(orders)
  /\ LET fn == Plan(call.request)[Len(call.parts) + 1]
         rows == IF ReadsOf(fn)[Len(call.reads) + 1] = "preferences"
                 THEN getAllPreferences(preferences')
                 ELSE getAllOrders(orders')
         reads == Append(call.reads, rows)
         parts == Append(call.parts,
                     PartResult(fn, reads, TrimLowerCase(call.request.email)))
     IN IF Len(reads) < Len(ReadsOf(fn))
        THEN /\ call' = [call EXCEPT !.reads = reads]
             /\ UNCHANGED last
        ELSE IF Len(parts) < Len(Plan(call.request))
        THEN /\ call' = [call EXCEPT !.reads = <<>>, !.parts = parts]
             /\ UNCHANGED last
        ELSE /\ call' = [op |-> "idle"]
             /\ last' = [op |-> "GET", request |-> call.request,
                         threw |-> FALSE, computed |-> Len(parts),
                         response |-> OkResponse(call.request, parts),
                         previous |-> <<>>,
                         snapshots |-> call.snapshots]

\* The next read throws
ReadThrowing ==
  /\ call.op = "GET"
  /\ preferences' = getDb(preferences)
  /\ orders' = getDb(orders)
  /\ call' = [op |-> "idle"]
  /\ last' = [op |-> "GET", request |-> call.request, threw |-> TRUE,
              computed |-> Len(call.parts),
              response |-> CatchResponse("lookup failed", call.parts),
              previous |-> <<>>,
              snapshots |-> call.snapshots]

MaxEnginePrefs == 1

MaxEngineOrders == 1

EngineWritePreference ==
  Len(preferences) < MaxEnginePrefs /\ EngineSavePreference("a@x.com", <<"Tech">>)

EngineWriteOrder ==
  \E amountCents \in Amounts, category \in CATEGORIES :
     /\ Len(orders) < MaxEngineOrders
     /\ EngineSaveOrder("a@x.com", amountCents, category, "completed")

EngineBegin == \E request \in Requests : Begin(request)

NextEngine ==
  EngineWritePreference \/ EngineWriteOrder \/ EngineBegin \/ ReadTable
  \/ ReadThrowing

SpecEngine == Init /\ [][NextEngine]_vars

(***************************************************************************)
(* The endpoint: what the claims speak of                                  *)
(***************************************************************************)
IsAnswer == last.op = "GET" /\ ~last.threw

IsFullReport ==
  IsAnswer /\ last.request.email # "" /\ last.request.type = "full"

(***************************************************************************)
(* C16: against an unchanged snapshot, fullReport(email) returns           *)
(* recommendations equal to recommend(email, 5), segmentOpportunities      *)
(* equal to listSegmentOpportunities(), frequentPatterns equal to the      *)
(* first 10 items of mineFrequentItemsets(0.05) and interestCentrality     *)
(* equal to the first 5 items of rankInterestCentrality(); the four parts  *)
(* have at most 5, 10, 10 and 5 items.                                     *)
(***************************************************************************)
C16_FullReportIsComposition ==
  IsFullReport =>
    LET body == last.response.body
        email == TrimLowerCase(last.request.email)
    IN /\ body.recommendations = getRecommendations(email, 5)
       /\ body.segmentOpportunities = getSegmentOpportunities
       /\ body.frequentPatterns =
             Slice(findFrequentItemsets([num |-> 1, den |-> 20]), 10)
       /\ body.interestCentrality = Slice(getInterestCentrality, 5)
       /\ Len(body.recommendations) <= 5
       /\ Len(body.segmentOpportunities) <= 10
       /\ Len(body.frequentPatterns) <= 10
       /\ Len(body.interestCentrality) <= 5

\* A report whose patterns were cut to 10, with every part holding items
C16_Witness ==
  /\ IsFullReport
  /\ Len(findFrequentItemsets([num |-> 1, den |-> 20])) > 10
  /\ Len(last.response.body.frequentPatterns) = 10
  /\ Len(last.response.body.recommendations) = 2
  /\ Len(last.response.body.segmentOpportunities) = 10
  /\ Len(last.response.body.interestCentrality) = 3

C19_QueriesLeaveStoreUnchanged ==
  [][last'.op = "GET" => (preferences' = preferences /\ orders' = orders)]_vars

\* A call that succeeded or failed over a store that holds records
C19_Witness ==
  /\ last.op = "GET"
  /\ last.request.type = "segments"
  /\ Len(preferences) > 0
  /\ Len(orders) > 0

(***************************************************************************)
(* C20: when a read of the store fails during an engine call, the call     *)
(* fails as a whole: the recommend endpoint answers with status 500 and a  *)
(* body of ok: false and the error message, with no recommendation,        *)
(* itemset, segment or centrality data, whatever was computed before the   *)
(* failure.                                                                *)
(***************************************************************************)
C20_FailureCarriesNoData ==
  (last.op = "GET" /\ last.threw) =>
     /\ last.response.status = 500
     /\ last.response.body.ok = FALSE
     /\ DOMAIN last.response.body = {"ok", "error"}

\* The read failed in the last engine function of a full report, after
\* three functions had returned their parts from a store that holds records
C20_Witness ==
  /\ last.op = "GET"
  /\ last.threw
  /\ last.computed = 3
  /\ last.request.email # ""
  /\ Len(preferences) > 0
  /\ Len(orders) > 0

(***************************************************************************)
(* C17: under any interleaving of an engine call with concurrent           *)
(* savePreference / saveOrder writes, what the call returns is what the    *)
(* engine computes from one single snapshot, one state the preference      *)
(* list and the order list were in together at one instant of the call; a  *)
(* report whose parts, or whose preference and order inputs, come from     *)
(* different store states is never returned.                               *)
(***************************************************************************)
C17_OneSnapshot ==
  IsAnswer =>
    \E state \in last.snapshots :
       last.response =
          OkResponse(last.request,
             ServedParts(last.request, getAllPreferences(state[1]),
                         getAllOrders(state[2]), Len(Plan(last.request))))

(***************************************************************************)
(* Order statistics (lib/db.ts)                                            *)
(***************************************************************************)
\* SELECT ... FROM orders WHERE status = 'completed'
CompletedRows(table) == SelectSeq(table, LAMBDA row : row.status = "completed")

\* COALESCE(SUM(amount_cents), 0)
RECURSIVE SumAmountCents(_)
SumAmountCents(rows) ==
  IF rows = <<>> THEN 0 ELSE Head(rows).amountCents + SumAmountCents(Tail(rows))

\* categoryRevenue[row.category] = (categoryRevenue[row.category] || 0) + row.amount_cents
RECURSIVE CategoryRevenue(_, _)
CategoryRevenue(rows, categoryRevenue) ==
  IF rows = <<>> THEN categoryRevenue
  ELSE CategoryRevenue(Tail(rows),
          MapSet(categoryRevenue, Head(rows).category,
                 MapGetOr(categoryRevenue, Head(rows).category, 0)
                 + Head(rows).amountCents))

\* Math.round(n / d) for n >= 0 and d >= 0.  A number is held with the mark
\* of its being finite: 0 / 0 is NaN, which is not.
RoundedQuotient(n, d) ==
  IF d = 0 THEN [finite |-> FALSE, value |-> 0]
  ELSE [finite |-> TRUE, value |-> (2 * n + d) \div (2 * d)]

\* Mutant of AvgOrderValueCents: the quotient without the test of its divisor
AvgOrderValueCentsUnguarded(totalRevenueCents, totalOrders) ==
  RoundedQuotient(totalRevenueCents, totalOrders)

\* totalOrders > 0 ? Math.round(totalRevenueCents / totalOrders) : 0
AvgOrderValueCents(totalRevenueCents, totalOrders) ==
  IF totalOrders > 0 THEN RoundedQuotient(totalRevenueCents, totalOrders)
  ELSE [finite |-> TRUE, value |-> 0]

OrderStats(table) ==
  LET allRows == CompletedRows(table)
      totalOrders == Len(allRows)
      totalRevenueCents == SumAmountCents(allRows)
  IN [totalOrders |-> totalOrders,
      totalRevenueCents |-> totalRevenueCents,
      uniqueCustomers |-> Cardinality({table[i].email : i \in 1..Len(table)}),
      avgOrderValueCents |-> AvgOrderValueCents(totalRevenueCents, totalOrders),
      categoryCounts |-> CountCategories(allRows, <<>>),
      categoryRevenue |-> CategoryRevenue(allRows, <<>>)]

getOrderStats == OrderStats(getDb(orders))

GetOrderStats ==
  /\ last' = [op |-> "getOrderStats", result |-> getOrderStats]
  /\ UNCHANGED <<preferences, orders, call>>

(***************************************************************************)
(* The aggregate queries over small stores, the empty ones among them      *)
(***************************************************************************)
MaxInsightPrefs == 1

MaxInsightOrders == 1

InsightSavePreference ==
  \E email \in Emails, interests \in CenInterestLists :
     Len(preferences) < MaxInsightPrefs /\ SavePreference(email, interests)

InsightSaveOrder ==
  \E email \in Emails, amountCents \in Amounts, category \in CATEGORIES,
     status \in Statuses :
     Len(orders) < MaxInsightOrders /\ SaveOrder(email, amountCents, category, status)

InsightQuery ==
  \/ \E minSupport \in MinSupports : FindFrequentItemsets(minSupport)
  \/ GetSegmentOpportunities
  \/ GetInterestCentrality
  \/ GetOrderStats

NextInsight == InsightSavePreference \/ InsightSaveOrder \/ InsightQuery

SpecInsight == Init /\ [][NextInsight]_vars

(***************************************************************************)
(* C21: in every snapshot whose preference list, order list or both are    *)
(* empty, mineFrequentItemsets, listSegmentOpportunities,                  *)
(* rankInterestCentrality and the order statistics complete, and every     *)
(* ratio they report (support, confidence, centrality, average order       *)
(* value) is a finite number: no reported ratio has a zero denominator,    *)
(* and the average order value over no completed order is 0.               *)
(***************************************************************************)
IsStatsCall == last.op = "getOrderStats"

C21_ZeroDenominators ==
  (Len(preferences) = 0 \/ Len(orders) = 0) =>
     /\ IsMineCall =>
           \A n \in 1..Len(last.result) : last.result[n].support.den > 0
     /\ IsSegmentCall =>
           \A n \in 1..Len(last.result) : last.result[n].confidence.den > 0
     /\ IsCentralityCall =>
           \A n \in 1..Len(last.result) : last.result[n].centrality.den > 0
     /\ IsStatsCall =>
           /\ last.result.avgOrderValueCents.finite
           /\ last.result.totalOrders = 0
                 => last.result.avgOrderValueCents.value = 0

\* Statistics over an order list that holds no completed order, asked of a
\* store without preference records
C21_Witness ==
  /\ IsStatsCall
  /\ Len(preferences) = 0
  /\ Len(orders) > 0
  /\ last.result.totalOrders = 0
  /\ last.result.uniqueCustomers > 0

(***************************************************************************)
(* Klaviyo client (lib/klaviyo.ts).  A call settles to its values or to    *)
(* the message of its error; null is the empty tuple.                      *)
(***************************************************************************)
Resolved(values) == [rejected |-> FALSE, values |-> values, error |-> <<>>]

Rejected(message) == [rejected |-> TRUE, values |-> <<>>, error |-> <<message>>]

\* throw new Error(text || `Klaviyo ... error: ${res.status}`), per function
KlaviyoMessage(fn) ==
  IF fn \in {"sendPreferenceEvent", "sendCheckoutStartedEvent",
             "sendOrderCompletedEvent"}
  THEN "Klaviyo Events API error"
  ELSE "Klaviyo Profiles API error"

\* Promise.all over the calls in flight: outcomes[i] is "rejected" or what the
\* call returns; of several rejections the one that settles first is thrown
PromiseAll(fns, outcomes, first) ==
  LET rejected == {i \in 1..Len(fns) : outcomes[i] = "rejected"}
  IN IF rejected = {} THEN Resolved(outcomes)
     ELSE IF first \in rejected THEN Rejected(KlaviyoMessage(fns[first]))
     ELSE Rejected(KlaviyoMessage(fns[CHOOSE i \in rejected : TRUE]))

\* What a Klaviyo function returns when it does not throw
KlaviyoReturns(fn) ==
  IF fn \in {"upsertProfile", "updateProfileWithPurchase"}
  THEN {"created", "updated"}
  ELSE {"success"}

(***************************************************************************)
(* POST /api/preferences and POST /api/purchase.  A handler runs from one  *)
(* await to the next; call holds the handler that is waiting.              *)
(***************************************************************************)
\* The interests of a request body, with the type of the JSON value
PostInterests ==
  {[type |-> "array", value |-> <<"Tech">>],
   [type |-> "array", value |-> <<"Tech", "Travel">>],
   [type |-> "undefined", value |-> <<>>]}

PostEmails == RawEmails \cup {"a@x.com"}

PostAmounts == {50, 5000}

PostCategories == {"Electronics", "Toys"}

PreferencesBodies == [email : PostEmails, interests : PostInterests]

PurchaseBodies ==
  [email : PostEmails, amountCents : PostAmounts, category : PostCategories,
   action : {"start", "complete"}]

\* Array.isArray(interests) ? interests : []
ValidInterests(interests) ==
  IF interests.type = "array" THEN interests.value ELSE <<>>

\* email.includes("@")
IncludesAt(email) == email \in {" A@X.com", "a@x.com", "b@x.com"}

\* The 400 answer of the purchase handler's validation, or none
PurchaseInvalid(body) ==
  IF body.email = "" \/ ~IncludesAt(body.email)
  THEN <<"Valid email required">>
  ELSE IF body.amountCents = 0 \/ body.amountCents < 100
  THEN <<"Amount must be at least $1.00">>
  ELSE IF body.category \notin CATEGORIES
  THEN <<"Category must be one of">>
  ELSE <<>>

\* SELECT ... FROM orders WHERE email = ? ORDER BY created_at DESC
getOrdersByEmail(table, email) ==
  SelectSeq(getAllOrders(table), LAMBDA row : row.email = email)

\* allOrders.reduce((sum, o) => sum + o.amountCents, 0)
TotalSpentCents(allOrders) == SumAmountCents(allOrders)

\* Mutant of TryKlaviyo: the error of the Klaviyo call is not caught
TryKlaviyoUncaught(settlement) ==
  [threw |-> settlement.rejected, klaviyoResult |-> settlement.values,
   klaviyoError |-> settlement.error]

\* klaviyoResult = null; klaviyoError = null;
\* try { klaviyoResult = await ... } catch (err) { klaviyoError = err.message }
TryKlaviyo(settlement) ==
  IF settlement.rejected
  THEN [threw |-> FALSE, klaviyoResult |-> <<>>,
        klaviyoError |-> settlement.error]
  ELSE [threw |-> FALSE, klaviyoResult |-> settlement.values,
        klaviyoError |-> <<>>]

\* The outer catch: { error: message }, status 500
PostCatchResponse(message) == [status |-> 500, body |-> [error |-> message]]

PostInvalidResponse(message) == [status |-> 400, body |-> [error |-> message]]

PreferencesResponse(record, try) ==
  IF try.threw THEN PostCatchResponse(try.klaviyoError[1])
  ELSE [status |-> 200,
        body |-> [ok |-> TRUE, id |-> record.id,
                  klaviyo |-> try.klaviyoResult,
                  klaviyoError |-> try.klaviyoError]]

PurchaseResponse(action, record, try) ==
  IF try.threw THEN PostCatchResponse(try.klaviyoError[1])
  ELSE IF action = "start"
  THEN [status |-> 200,
        body |-> [ok |-> TRUE, action |-> "checkout_started",
                  klaviyo |-> try.klaviyoResult,
                  klaviyoError |-> try.klaviyoError]]
  ELSE [status |-> 200,
        body |-> [ok |-> TRUE, action |-> "order_completed",
                  order |-> [id |-> record.id,
                             amount |-> [num |-> record.amountCents, den |-> 100],
                             currency |-> "usd",
                             category |-> record.category],
                  klaviyo |-> try.klaviyoResult,
                  klaviyoError |-> try.klaviyoError]]

\* The answer of a handler that returns without having called Klaviyo
PostAnswer(route, response) ==
  [op |-> "POST", route |-> route, action |-> "none", klaviyoFailed |-> FALSE,
   record |-> <<>>, response |-> response]

\* if (!email || typeof email !== "string") return 400
PreferencesReject(body) ==
  /\ call.op = "idle"
  /\ body.email = ""
  /\ last' = PostAnswer("preferences", PostInvalidResponse("Email required"))
  /\ UNCHANGED <<preferences, orders, call>>

\* savePreference throws: nothing is stored, the outer catch answers
PreferencesStoreThrows(body) ==
  /\ call.op = "idle"
  /\ body.email # ""
  /\ last' = PostAnswer("preferences", PostCatchResponse("database error"))
  /\ UNCHANGED <<preferences, orders, call>>

\* validEmail, validInterests, savePreference
PreferencesSave(body) ==
  /\ call.op = "idle"
  /\ body.email # ""
  /\ savePreference(TrimLowerCase(body.email), ValidInterests(body.interests))
  /\ call' = [op |-> "POST", route |-> "preferences", action |-> "complete",
              record |-> preferences'[Len(preferences')],
              email |-> TrimLowerCase(body.email),
              sent |-> <<>>, totalSpentCents |-> 0, orderCount |-> 0]
  /\ last' = [op |-> "savePreference"]
  /\ UNCHANGED orders

\* savePreferencesToKlaviyo: sendPreferenceEvent and upsertProfile are called
PreferencesSend ==
  /\ call.op = "POST"
  /\ call.route = "preferences"
  /\ call.sent = <<>>
  /\ call' = [call EXCEPT !.sent = <<"sendPreferenceEvent", "upsertProfile">>]
  /\ UNCHANGED <<preferences, orders, last>>

PurchaseReject(body) ==
  /\ call.op = "idle"
  /\ PurchaseInvalid(body) # <<>>
  /\ last' = PostAnswer("purchase", PostInvalidResponse(PurchaseInvalid(body)[1]))
  /\ UNCHANGED <<preferences, orders, call>>

\* action === "start": sendCheckoutStartedEvent is called, nothing is stored
PurchaseStart(body) ==
  /\ call.op = "idle"
  /\ PurchaseInvalid(body) = <<>>
  /\ body.action = "start"
  /\ call' = [op |-> "POST", route |-> "purchase", action |-> "start",
              record |-> [id |-> 0, email |-> TrimLowerCase(body.email),
                          amountCents |-> body.amountCents,
                          category |-> body.category, status |-> "none",
                          createdAt |-> 0],
              email |-> TrimLowerCase(body.email),
              sent |-> <<"sendCheckoutStartedEvent">>,
              totalSpentCents |-> 0, orderCount |-> 0]
  /\ UNCHANGED <<preferences, orders, last>>

\* saveOrder throws (order_id is UNIQUE): nothing is stored
PurchaseStoreThrows(body) ==
  /\ call.op = "idle"
  /\ PurchaseInvalid(body) = <<>>
  /\ body.action # "start"
  /\ last' = PostAnswer("purchase", PostCatchResponse("database error"))
  /\ UNCHANGED <<preferences, orders, call>>

\* saveOrder({..., email: validEmail, status: "completed"})
PurchaseSave(body) ==
  /\ call.op = "idle"
  /\ PurchaseInvalid(body) = <<>>
  /\ body.action # "start"
  /\ saveOrder(TrimLowerCase(body.email), body.amountCents, body.category,
               "completed")
  /\ call' = [op |-> "POST", route |-> "purchase", action |-> "complete",
              record |-> orders'[Len(orders')],
              email |-> TrimLowerCase(body.email),
              sent |-> <<>>, totalSpentCents |-> 0, orderCount |-> 0]
  /\ last' = [op |-> "saveOrder"]
  /\ UNCHANGED preferences

\* getOrdersByEmail, totalSpentCents; sendOrderCompletedEvent and
\* updateProfileWithPurchase are called
PurchaseSend ==
  /\ call.op = "POST"
  /\ call.route = "purchase"
  /\ call.sent = <<>>
  /\ LET allOrders == getOrdersByEmail(getDb(orders), call.email)
     IN call' = [call EXCEPT
                   !.sent = <<"sendOrderCompletedEvent",
                              "updateProfileWithPurchase">>,
                   !.totalSpentCents = TotalSpentCents(allOrders),
                   !.orderCount = Len(allOrders)]
  /\ UNCHANGED <<preferences, orders, last>>

\* The Klaviyo calls of the waiting handler settle and it answers
KlaviyoSettle(outcomes, first) ==
  /\ call.op = "POST"
  /\ call.sent # <<>>
  /\ Len(outcomes) = Len(call.sent)
  /\ \A i \in 1..Len(outcomes) :
        outcomes[i] \in KlaviyoReturns(call.sent[i]) \cup {"rejected"}
  /\ first \in 1..Len(outcomes)
  /\ LET settlement == PromiseAll(call.sent, outcomes, first)
         try == TryKlaviyo(settlement)
     IN last' = [op |-> "POST", route |-> call.route, action |-> call.action,
                 klaviyoFailed |-> settlement.rejected,
                 record |-> <<call.record>>,
                 response |-> IF call.route = "preferences"
                              THEN PreferencesResponse(call.record, try)
                              ELSE PurchaseResponse(call.action, call.record, try)]
  /\ call' = [op |-> "idle"]
  /\ UNCHANGED <<preferences, orders>>

(***************************************************************************)
(* The three endpoints over a store that only they write                   *)
(***************************************************************************)
MaxPostPrefs == 1

MaxPostOrders == 1

KlaviyoOutcomes == {"success", "created", "updated", "rejected"}

PostPreferences ==
  \E body \in PreferencesBodies :
     \/ PreferencesReject(body)
     \/ PreferencesStoreThrows(body)
     \/ Len(preferences) < MaxPostPrefs /\ PreferencesSave(body)

PostPurchase ==
  \E body \in PurchaseBodies :
     \/ PurchaseReject(body)
     \/ PurchaseStart(body)
     \/ PurchaseStoreThrows(body)
     \/ Len(orders) < MaxPostOrders /\ PurchaseSave(body)

PostKlaviyo ==
  \/ PreferencesSend
  \/ PurchaseSend
  \/ \E outcomes \in KlaviyoOutcomes \X KlaviyoOutcomes, first \in 1..2 :
        \/ KlaviyoSettle(outcomes, first)
        \/ KlaviyoSettle(<<outcomes[1]>>, 1)

PostGet ==
  \E request \in [email : RawEmails \ {""}, type : {"recommendations"}] :
     Get(request)

NextPost == PostPreferences \/ PostPurchase \/ PostKlaviyo \/ PostGet

SpecPost == Init /\ [][NextPost]_vars

(***************************************************************************)
(* C22: every preference record and every order stored through the         *)
(* endpoints carries the trimmed, lower-cased email, and the recommend     *)
(* endpoint looks up the trimmed, lower-cased form of the email it is      *)
(* asked for: a query by an email that differs from a customer's only in   *)
(* case or surrounding whitespace answers with that customer's email and   *)
(* with the recommendations computed from that customer's records.         *)
(***************************************************************************)
\* The spellings of an email that differ from it only in case or in
\* surrounding whitespace
Spellings(email) ==
  IF email = "a@x.com" THEN {"a@x.com", " A@X.com"} ELSE {email}

IsRecommendationsAnswer ==
  /\ last.op = "GET"
  /\ ~last.threw
  /\ last.request.type = "recommendations"

C22_NormalizedEmails ==
  /\ \A i \in 1..Len(preferences) : preferences[i].email \in Emails
  /\ \A i \in 1..Len(orders) : orders[i].email \in Emails
  /\ IsRecommendationsAnswer =>
        \A email \in Emails :
           last.request.email \in Spellings(email) =>
              /\ last.response.body.email = email
              /\ last.response.body.recommendations
                   = Recommend(getAllPreferences(preferences),
                               getAllOrders(orders), email, 5)

\* A query in another spelling answered from the customer's own records
C22_Witness ==
  /\ IsRecommendationsAnswer
  /\ last.request.email = " A@X.com"
  /\ HasPreferenceRecord("a@x.com")
  /\ \E i \in 1..Len(orders) : orders[i].email = "a@x.com"
  /\ \E n \in 1..Len(last.response.body.recommendations) :
        ~IsPopularItem(last.response.body.recommendations[n])

(***************************************************************************)
(* C23: in the preferences endpoint and in the purchase endpoint with      *)
(* action complete, the record is in the local store when a Klaviyo call   *)
(* is made, and when the Klaviyo call fails the request still succeeds:    *)
(* ok is true, klaviyoError is set, klaviyo is null, and the stored        *)
(* record remains.                                                         *)
(***************************************************************************)
IsStored(route, record) ==
  IF route = "preferences"
  THEN \E i \in 1..Len(preferences) : preferences[i] = record
  ELSE \E i \in 1..Len(orders) : orders[i] = record

C23_StoreBeforeKlaviyo ==
  /\ (call.op = "POST" /\ call.action = "complete" /\ call.sent # <<>>)
        => IsStored(call.route, call.record)
  /\ (last.op = "POST" /\ last.action = "complete" /\ last.klaviyoFailed)
        => /\ last.response.status = 200
           /\ last.response.body.ok = TRUE
           /\ last.response.body.klaviyoError # <<>>
           /\ last.response.body.klaviyo = <<>>
           /\ IsStored(last.route, last.record[1])

\* A purchase whose Klaviyo calls failed
C23_Witness ==
  /\ last.op = "POST"
  /\ last.route = "purchase"
  /\ last.action = "complete"
  /\ last.klaviyoFailed
  /\ last.response.body.klaviyoError = <<"Klaviyo Profiles API error">>
  /\ Len(orders) > 0

(***************************************************************************)
(* C24: in the co-occurrence matrix built from the store, matrix[i][c] is  *)
(* the number of completed orders of category c whose buyer's union of     *)
(* interests contains i: each such (order, interest) pair adds exactly 1,  *)
(* orders of buyers without preference records add nothing, and orders     *)
(* that are not completed add nothing.                                      *)
(***************************************************************************)
MatrixAt(matrix, interest, c) == MapGetOr(MapGetOr(matrix, interest, <<>>), c, 0)

CompletedCoOccurrence(interest, c) ==
  Cardinality({n \in 1..Len(orders) :
     /\ orders[n].category = c
     /\ orders[n].status = "completed"
     /\ interest \in InterestUnion(orders[n].email)})

C24_MatrixCountsCompletedOrders ==
  LET matrix == buildCoOccurrenceMatrix(getAllPreferences(preferences),
                                        getAllOrders(orders))
  IN \A interest \in Range(TokenOrder), c \in CATEGORIES :
        MatrixAt(matrix, interest, c) = CompletedCoOccurrence(interest, c)

(***************************************************************************)
(* The top-K loop and the drain loop of getRecommendations, one iteration  *)
(* at a time.  call holds the locals of the running function: the heap,    *)
(* k, the scores scanned so far and the results.                           *)
(***************************************************************************)
MaxSelectK == 3

MaxScan == 4

\* The keys of categoryScores in the order of their insertion
ScanCategories == <<"Electronics", "Fashion", "Home", "Beauty", "Sports">>

\* Boosted scores, in thousandths: 1, 1.5 and 2
ScanScores == {1000, 1500, 2000}

\* const heap = new MinHeap()
SelectBegin(k) ==
  /\ call.op = "idle" \/ (call.op = "select" /\ call.pc = "done")
  /\ call' = [op |-> "select", pc |-> "scan", k |-> k, heap |-> <<>>,
              scanned |-> <<>>, retained |-> <<>>, results |-> <<>>]
  /\ UNCHANGED <<preferences, orders, last>>

\* One iteration of for (const [category, data] of categoryScores)
SelectOffer(score) ==
  /\ call.op = "select"
  /\ call.pc = "scan"
  /\ LET value == [category |-> ScanCategories[Len(call.scanned) + 1],
                   reasons |-> <<>>]
         heap == OfferToHeap(call.heap, value, score, call.k)
     IN /\ call' = [call EXCEPT !.heap = heap, !.scanned = Append(@, score)]
        /\ last' = [op |-> "offer", k |-> call.k, value |-> value,
                    priority |-> score, before |-> call.heap, after |-> heap]
  /\ UNCHANGED <<preferences, orders>>

\* The scan is over: const results = []
SelectScanned ==
  /\ call.op = "select"
  /\ call.pc = "scan"
  /\ call' = [call EXCEPT !.pc = "drain", !.retained = call.heap]
  /\ UNCHANGED <<preferences, orders, last>>

\* Mutant of DrainStep: the item is appended to the results
DrainStepAppending(heap, results) ==
  LET ex == extractMin(heap)
  IN [heap |-> ex.heap, results |-> Append(results, HeapRecommendation(ex.min[1]))]

\* const item = heap.extractMin()!; results.unshift({...})
DrainStep(heap, results) ==
  LET ex == extractMin(heap)
  IN [heap |-> ex.heap, results |-> <<HeapRecommendation(ex.min[1])>> \o results]

\* One test of while (heap.size > 0), with the iteration when it passes
SelectDrain ==
  /\ call.op = "select"
  /\ call.pc = "drain"
  /\ IF Len(call.heap) > 0
     THEN LET step == DrainStep(call.heap, call.results)
          IN call' = [call EXCEPT !.heap = step.heap, !.results = step.results]
     ELSE call' = [call EXCEPT !.pc = "done"]
  /\ UNCHANGED <<preferences, orders, last>>

NextSelect ==
  \/ \E k \in 1..MaxSelectK : SelectBegin(k)
  \/ \E score \in ScanScores :
        /\ call.op = "select"
        /\ Len(call.scanned) < MaxScan
        /\ SelectOffer(score)
  \/ SelectScanned
  \/ SelectDrain

SpecSelect == Init /\ [][NextSelect]_vars

(***************************************************************************)
(* C25: in the top-K selection of recommend, a pair is inserted            *)
(* unconditionally while fewer than K pairs are held; once K are held a    *)
(* new pair replaces the minimum only if its priority is strictly greater  *)
(* (an equal priority leaves the structure as it was); after any scan the  *)
(* priorities retained are exactly the K largest of the priorities scanned *)
(* (all of them when fewer than K were scanned).                           *)
(***************************************************************************)
PrioritiesOf(heap) == [i \in 1..Len(heap) |-> heap[i].priority]

Descending(s) == StableSort(s, LAMBDA a, b : a > b)

MinPriority(heap) ==
  CHOOSE p \in Range(PrioritiesOf(heap)) :
     \A q \in Range(PrioritiesOf(heap)) : p <= q

IsOffer == last.op = "offer"

C25_BoundedTopK ==
  /\ (call.op = "select" /\ call.pc = "scan") =>
        Descending(PrioritiesOf(call.heap))
          = Slice(Descending(call.scanned), call.k)
  /\ IsOffer =>
        LET pair == [value |-> last.value, priority |-> last.priority]
            kept == Descending(PrioritiesOf(last.after))
        IN /\ Len(last.before) < last.k =>
                 /\ pair \in Range(last.after)
                 /\ Range(last.before) \subseteq Range(last.after)
                 /\ Len(last.after) = Len(last.before) + 1
           /\ (Len(last.before) = last.k
               /\ last.priority > MinPriority(last.before)) =>
                 /\ pair \in Range(last.after)
                 /\ Len(last.after) = last.k
                 /\ kept = Slice(Descending(Append(PrioritiesOf(last.before),
                                                   last.priority)), last.k)
           /\ (Len(last.before) = last.k
               /\ last.priority <= MinPriority(last.before)) =>
                 last.after = last.before

\* A full structure was offered a score equal to its minimum, after a larger
\* score had replaced an earlier minimum
C25_Witness ==
  /\ IsOffer
  /\ call.op = "select"
  /\ call.pc = "scan"
  /\ last.k = 2
  /\ Len(last.before) = last.k
  /\ last.priority = MinPriority(last.before)
  /\ call.scanned = <<1000, 2000, 1500, 1500>>

(***************************************************************************)
(* C26: draining the structure (extractMin and prepend until the size is   *)
(* 0) returns every retained item exactly once, in descending order of     *)
(* priority, and leaves the structure empty: size 0, peek undefined.       *)
(***************************************************************************)
IsDrained == call.op = "select" /\ call.pc = "done"

C26_Drain ==
  /\ (call.op = "select" /\ call.pc = "drain") =>
        Len(call.heap) + Len(call.results) = Len(call.retained)
  /\ IsDrained =>
        /\ Len(call.results) = Len(call.retained)
        /\ \A i \in 1..Len(call.retained) :
              Cardinality({n \in 1..Len(call.results) :
                 /\ call.results[n].category = call.retained[i].value.category
                 /\ call.results[n].score = RoundTo2(call.retained[i].priority)})
                = 1
        /\ DescendingScore(call.results)
        /\ Len(call.heap) = 0
        /\ peek(call.heap) = <<>>
        /\ call.results = DrainHeap(call.retained, <<>>)

\* Three items of two priorities were retained and drained
C26_Witness ==
  /\ IsDrained
  /\ Len(call.retained) = 3
  /\ Len(call.results) = 3
  /\ call.results[1].score > call.results[3].score
  /\ call.results[2].score = call.results[3].score

(***************************************************************************)
(* A MinHeap under any sequence of insert and extractMin.  call holds the  *)
(* object: its array and the number of calls made of each method.          *)
(***************************************************************************)
MaxInserts == 4

HeapPriorities == {1000, 1500, 2000}

\* new MinHeap()
HeapNew ==
  /\ call.op = "idle"
  /\ call' = [op |-> "MinHeap", heap |-> <<>>, inserts |-> 0, extractions |-> 0]
  /\ UNCHANGED <<preferences, orders, last>>

\* heap.insert(value, priority); the value is the number of the insertion
HeapInsert(priority) ==
  /\ call.op = "MinHeap"
  /\ LET heap == insert(call.heap, call.inserts + 1, priority)
     IN /\ call' = [call EXCEPT !.heap = heap, !.inserts = @ + 1]
        /\ last' = [op |-> "insert", before |-> call.heap, after |-> heap,
                    returned |-> <<>>]
  /\ UNCHANGED <<preferences, orders>>

\* heap.extractMin(), of an empty heap too
HeapExtractMin ==
  /\ call.op = "MinHeap"
  /\ LET ex == extractMin(call.heap)
     IN /\ call' = [call EXCEPT !.heap = ex.heap,
                                !.extractions = @ + Len(ex.min)]
        /\ last' = [op |-> "extractMin", before |-> call.heap,
                    after |-> ex.heap, returned |-> ex.min]
  /\ UNCHANGED <<preferences, orders>>

NextHeap ==
  \/ HeapNew
  \/ \E priority \in HeapPriorities :
        /\ call.op = "MinHeap"
        /\ call.inserts < MaxInserts
        /\ HeapInsert(priority)
  \/ HeapExtractMin

SpecHeap == Init /\ [][NextHeap]_vars

(***************************************************************************)
(* C28: after any sequence of insert and extractMin every element's        *)
(* priority is at least its parent's (the parent of index i is             *)
(* floor((i - 1) / 2)); peek returns an element of minimum priority among  *)
(* those held; extractMin returns such an element and removes it, and      *)
(* nothing else; the size is the number of inserts minus the number of     *)
(* extractions that returned an element.                                   *)
(***************************************************************************)
IsHeapOrdered(heap) ==
  \A i \in 1..Len(heap) - 1 :
     At(heap, i).priority >= At(heap, (i - 1) \div 2).priority

IsExtraction == last.op = "extractMin"

C28_HeapOrder ==
  call.op = "MinHeap" =>
     /\ IsHeapOrdered(call.heap)
     /\ Len(call.heap) > 0 =>
           /\ peek(call.heap)[1] \in Range(call.heap)
           /\ peek(call.heap)[1].priority = MinPriority(call.heap)
     /\ Len(call.heap) = 0 => peek(call.heap) = <<>>
     /\ Len(call.heap) = call.inserts - call.extractions
     /\ (IsExtraction /\ Len(last.before) > 0) =>
           /\ Len(last.returned) = 1
           /\ last.returned[1] \in Range(last.before)
           /\ last.returned[1].priority = MinPriority(last.before)
           /\ Len(last.after) = Len(last.before) - 1
           /\ Range(last.after) = Range(last.before) \ {last.returned[1]}
     /\ (IsExtraction /\ Len(last.before) = 0) =>
           /\ last.returned = <<>>
           /\ last.after = <<>>

\* An extraction from four elements that had to move the last element down
\* past the root's children
C28_Witness ==
  /\ call.op = "MinHeap"
  /\ IsExtraction
  /\ Len(last.before) = 4
  /\ last.after[1] # last.before[4]
  /\ call.extractions = 1

(***************************************************************************)
(* Pair counting over interest arrays in either order, and with a token    *)
(* that comes back                                                         *)
(***************************************************************************)
PairInterestLists ==
  {<<"Tech", "Travel">>, <<"Travel", "Tech">>, <<"Tech", "Travel", "Tech">>}

PairSavePreference ==
  \E email \in Emails, interests \in PairInterestLists :
     Len(preferences) < MaxMinePrefs /\ SavePreference(email, interests)

NextPairs == PairSavePreference \/ MineSaveOrder \/ MineQuery

SpecPairs == Init /\ [][NextPairs]_vars

(***************************************************************************)
(* C27: interest-pair counting does not depend on order.  A preference     *)
(* record that holds the distinct interests a and b counts the pair        *)
(* exactly once, under one key whose tokens are in ascending order,        *)
(* whatever their order in the record: records listing (a, b) and (b, a)   *)
(* count for the same itemset, whose count is the number of records        *)
(* holding both, and no itemset with the items in descending order is      *)
(* reported.                                                               *)
(***************************************************************************)
RecordsHoldingBoth(pair) ==
  Cardinality({r \in 1..Len(preferences) :
     {pair[1], pair[2]} \subseteq Range(preferences[r].interests)})

C27_PairCountedOncePerRecord ==
  IsMineCall =>
    LET r == last.result
    IN /\ \A n \in 1..Len(r) :
             (r[n].type = "interest" /\ Len(r[n].items) = 2)
                => ~StrLess(r[n].items[2], r[n].items[1])
       /\ \A pair \in InterestPairs :
             pair[1] # pair[2] =>
                /\ Reported(r, <<pair[2], pair[1]>>, "interest") = {}
                /\ Cardinality(Reported(r, pair, "interest")) =
                      IF RecordsHoldingBoth(pair) >= Threshold(last.minSupport)
                      THEN 1 ELSE 0
                /\ \A n \in Reported(r, pair, "interest") :
                      RatioIs(r[n].support, RecordsHoldingBoth(pair),
                              Len(preferences))

(***************************************************************************)
(* C29: a customer who has preference records but for whom no category     *)
(* accumulates a score (the records hold no interests, or none of the      *)
(* interests has a co-occurrence entry) receives from recommend(email, k)  *)
(* exactly what an email without records receives: the top-k categories by *)
(* order count, each with the reason "Popular category".                   *)
(***************************************************************************)
UnknownEmail == "nobody@x.com"

HasNoScore(email) ==
  HasPreferenceRecord(email) /\ PersonalizedCategories(email) = {}

C29_NoScoreIsPopularityFallback ==
  (IsRecommendCall /\ HasNoScore(last.email)) =>
     /\ last.result = Recommend(getAllPreferences(preferences),
                                getAllOrders(orders), UnknownEmail, last.k)
     /\ IsPopularityTopK(last.result, last.k, OrderCount)

\* A customer with an interest that no buyer shares, over orders of two
\* categories
C29_Witness ==
  /\ IsRecommendCall
  /\ HasNoScore(last.email)
  /\ InterestUnion(last.email) # {}
  /\ Len(last.result) = 2

(***************************************************************************)
(* Segments over interests as the preferences endpoint stores them: any    *)
(* string, one with the separator of the miner's keys among them           *)
(***************************************************************************)
SeparatorInterestLists == {<<"Tech">>, <<"Home|Garden">>, <<"Tech", "Travel">>}

SeparatorSavePreference ==
  \E email \in Emails, interests \in SeparatorInterestLists :
     Len(preferences) < MaxRawPrefs /\ SavePreference(email, interests)

NextSeparator == SeparatorSavePreference \/ RawSaveOrder \/ SegQuery

SpecSeparator == Init /\ [][NextSeparator]_vars

(***************************************************************************)
(* C30: every segment that listSegmentOpportunities derives from a         *)
(* frequent itemset, interest pair or interest-category pair, has          *)
(* estimatedSize >= 1: at least one customer profile satisfies both of     *)
(* its membership predicates.                                              *)
(***************************************************************************)
IsCrossSegment(segment) ==
  Len(segment.name) = 3 /\ segment.name[2] = " Fans who buy "

C30_PatternSegmentNotEmpty ==
  IsSegmentCall =>
     \A n \in 1..Len(last.opportunities) :
        (IsPairSegment(last.opportunities[n])
         \/ IsCrossSegment(last.opportunities[n]))
           => last.opportunities[n].estimatedSize >= 1

====
